---- MODULE Spec2Model ----
(***************************************************************************)
(* claim-graph: claim identity (content addressing), the witness           *)
(* attestation protocol and the operations built on them.                  *)
(*                                                                         *)
(* Go strings and byte slices are sequences of byte values (0..255).       *)
(* A nil pointer / nil slice argument is the empty tuple None, a present   *)
(* value x is Some(x) = <<x>>.                                             *)
(***************************************************************************)
EXTENDS Integers, Sequences, FiniteSets, TLC

VARIABLES claim, last, rs, heap, clock, held, procs, st

vars == <<claim, last, rs, heap, clock, held, procs, st>>

None == <<>>

Some(x) == <<x>>

\* the value of the variables a specification does not use
Idle == <<>>

\* the variables outside the claim and the last call on it keep their value
OthersIdle == rs = Idle /\ heap = Idle /\ clock = 0 /\ held = Idle /\ procs = Idle /\ st = Idle

(***************************************************************************)
(* Bounds of the model.                                                    *)
(***************************************************************************)
\* longest total payload (bytes of all identity strings together) of a claim
MaxTotal == 2

\* most evidence entries of a claim
MaxEvidence == 2

\* number of distinct key pairs the entropy source can produce
NumKeys == 2

\* most attestations a claim collects in a run
MaxAtt == 2

\* most recording calls that change a counter of the reputation engine
MaxEvents == 3

(***************************************************************************)
(* Byte-level helpers.                                                     *)
(***************************************************************************)
\* binary.Write(buf, binary.BigEndian, uint32(n)), for 0 <= n < 2^31
U32BE(n) ==
  <<(n \div 16777216) % 256, (n \div 65536) % 256, (n \div 256) % 256, n % 256>>

\* binary.Write(buf, binary.BigEndian, int64(n)), for -2^31 <= n < 2^31:
\* two's complement, the upper four bytes are the sign extension.
I64BE(n) ==
  LET ext == IF n < 0 THEN 255 ELSE 0
      low == IF n < 0 THEN (n + 2147483647) + 1 ELSE n
      top == (low \div 16777216) + (IF n < 0 THEN 128 ELSE 0)
  IN  <<ext, ext, ext, ext, top, (low \div 65536) % 256, (low \div 256) % 256,
        low % 256>>

\* byte-wise lexicographic order of Go strings: a < b
RECURSIVE StrLess(_, _)
StrLess(a, b) ==
  IF b = <<>> THEN FALSE
  ELSE IF a = <<>> THEN TRUE
  ELSE IF Head(a) # Head(b) THEN Head(a) < Head(b)
  ELSE StrLess(Tail(a), Tail(b))

\* insert s into the ascending sequence sorted
RECURSIVE InsertSorted(_, _)
InsertSorted(s, sorted) ==
  IF sorted = <<>> THEN <<s>>
  ELSE IF StrLess(Head(sorted), s) THEN <<Head(sorted)>> \o InsertSorted(s, Tail(sorted))
  ELSE <<s>> \o sorted

\* a sort that leaves the order as given
SortStringsNoOp(seq) == seq

\* sort.Strings: ascending byte-wise order (the result depends only on the
\* multiset of entries)
RECURSIVE SortStrings(_)
SortStrings(seq) ==
  IF seq = <<>> THEN <<>> ELSE InsertSorted(Head(seq), SortStrings(Tail(seq)))

RECURSIVE Concat(_)
Concat(seqs) ==
  IF seqs = <<>> THEN <<>> ELSE Head(seqs) \o Concat(Tail(seqs))

(***************************************************************************)
(* ClaimIdentity.                                                          *)
(***************************************************************************)
\* time.Time as the instant hi * 2^64 + lo nanoseconds after the Unix epoch.
\* Time.UnixNano computes sec*1e9 + nsec in int64, which wraps modulo 2^64.
UnixNano(t) == t.lo

\* a writer that omits the length prefix
writeStringNoPrefix(buf, s) == buf \o s

\* writeString: 4-byte big-endian length, then the raw bytes
writeString(buf, s) == buf \o U32BE(Len(s)) \o s

\* the byte layout of serializeClaimContent, for the evidence order given
serializeFields(c, evidence) ==
  LET b1 == writeString(<<>>, c.Statement.Subject)
      b2 == writeString(b1, c.Statement.Predicate)
      b3 == writeString(b2, c.Statement.Object)
      b4 == writeString(b3, c.Statement.Domain)
      b5 == b4 \o U32BE(Len(evidence))
      b6 == b5 \o Concat([i \in 1..Len(evidence) |-> writeString(<<>>, evidence[i])])
      b7 == writeString(b6, c.TimeEvent)
  IN  b7 \o I64BE(UnixNano(c.Created))

\* a serializer that also writes the number of attestations
serializeWithWitnesses(c) ==
  [data |-> serializeFields(c, SortStrings(c.Evidence)) \o U32BE(Len(c.Witnesses)),
   claim |-> c]

\* serializeClaimContent: the canonical bytes, and the claim as the call
\* leaves it (the evidence is copied, and the copy is sorted).
serializeClaimContent(c) ==
  LET sortedEvidence == SortStrings(c.Evidence)
  IN  [data |-> serializeFields(c, sortedEvidence), claim |-> c]

\* multihash.Sum(data, SHA2_256, -1): the tag 0x12, the digest length 0x20,
\* and the digest.  SHA-256 is modelled as injective: the digest of data is
\* data itself.
MultihashSum(data) == <<18, 32>> \o data

\* cid.NewCidV1(cid.Raw, mh).String(): multibase prefix 'b', version 1,
\* codec 0x55, then the multihash (the base32 text, a bijection, is not
\* expanded).
CidString(mh) == <<98, 1, 85>> \o mh

\* ComputeCID on a present claim: the identifier, and the claim as left
ComputeCID(c) ==
  LET s == serializeClaimContent(c)
  IN  [id |-> CidString(MultihashSum(s.data)), err |-> "nil", claim |-> s.claim]

\* a VerifyCID that recomputes the id and never compares it
VerifyCIDNoCompare(c) ==
  LET r == ComputeCID(c)
  IN  [err |-> "nil", claim |-> r.claim]

\* VerifyCID on a present claim
VerifyCID(c) ==
  LET r == ComputeCID(c)
  IN  [err |-> IF c.ID # r.id THEN "CIDMismatch" ELSE "nil", claim |-> r.claim]

\* NewClaim(statement, evidence, timeEvent) at clock reading now
NewClaim(statement, evidence, timeEvent, now) ==
  LET c0 == [ID |-> <<>>, Statement |-> statement, Evidence |-> evidence,
             TimeEvent |-> timeEvent, Witnesses |-> <<>>, Created |-> now,
             Metadata |-> {}]
      r  == ComputeCID(c0)
  IN  [r.claim EXCEPT !.ID = r.id]

(***************************************************************************)
(* encoding/hex, as the witness code uses it.                              *)
(***************************************************************************)
\* hextable "0123456789abcdef": the character of the nibble v
HexDigit(v) == IF v < 10 THEN 48 + v ELSE 97 + (v - 10)

\* hex.EncodeToString: two lower-case digits per byte
HexEncodeToString(bytes) ==
  Concat([i \in 1..Len(bytes) |-> <<HexDigit(bytes[i] \div 16), HexDigit(bytes[i] % 16)>>])

\* fromHexChar: digits and letters of either case; -1 for any other character
fromHexChar(ch) ==
  IF 48 <= ch /\ ch <= 57 THEN ch - 48
  ELSE IF 97 <= ch /\ ch <= 102 THEN ch - 97 + 10
  ELSE IF 65 <= ch /\ ch <= 70 THEN ch - 65 + 10
  ELSE -1

\* hex.DecodeString: fails on a character that is no hex digit and on an odd
\* length
HexDecodeString(str) ==
  IF (\E i \in 1..Len(str) : fromHexChar(str[i]) = -1) \/ Len(str) % 2 # 0
  THEN [bytes |-> <<>>, err |-> "invalid hex"]
  ELSE [bytes |-> [i \in 1..(Len(str) \div 2) |->
                     16 * fromHexChar(str[2*i - 1]) + fromHexChar(str[2*i])],
        err |-> "nil"]

(***************************************************************************)
(* crypto/ed25519, symbolically.  A signature is the term                  *)
(* [signer, msg, mask]: the signature of msg under the private key of      *)
(* signer, its bytes XOR-ed with mask (0: as signed).  Verify accepts      *)
(* exactly the signatures Sign produced, unmodified.                       *)
(***************************************************************************)
\* ed25519.PublicKeySize
PublicKeySize == 32

\* the i-th public key the entropy source can give: 32 bytes 0xAB, 0xBC, ...
KeyBytes(i) == [j \in 1..PublicKeySize |-> (171 + 17 * (i - 1)) % 256]

Keys == {KeyBytes(i) : i \in 1..NumKeys}

\* the private key of pub: 32 seed bytes (not expanded: the complement of
\* pub stands for them), then the public key
PrivateKeyOf(pub) == [j \in 1..PublicKeySize |-> 255 - pub[j]] \o pub

\* ed25519.Sign: the public half is the private key's last 32 bytes
Sign(priv, msg) ==
  [signer |-> SubSeq(priv, PublicKeySize + 1, 2 * PublicKeySize), msg |-> msg, mask |-> 0]

\* ed25519.Verify
Verify(pub, msg, sig) == sig.signer = pub /\ sig.msg = msg /\ sig.mask = 0

(***************************************************************************)
(* AttestationProtocol.                                                    *)
(***************************************************************************)
\* GenerateWitness, the entropy source giving the key pair of pub
GenerateWitness(pub) ==
  [ID |-> HexEncodeToString(pub), PublicKey |-> pub, PrivateKey |-> Some(PrivateKeyOf(pub))]

\* WitnessFromPublicKey
WitnessFromPublicKey(pubKey) ==
  [ID |-> HexEncodeToString(pubKey), PublicKey |-> pubKey, PrivateKey |-> None]

\* WitnessFromID: the id is kept as given
WitnessFromID(id) ==
  LET d == HexDecodeString(id)
  IN  IF d.err # "nil" THEN [wit |-> None, err |-> "invalid witness ID"]
      ELSE IF Len(d.bytes) # PublicKeySize
      THEN [wit |-> None, err |-> "invalid public key length"]
      ELSE [wit |-> Some([ID |-> id, PublicKey |-> d.bytes, PrivateKey |-> None]),
            err |-> "nil"]

\* an Attest that looks at the claim before the private key
AttestClaimCheckFirst(w, c, now) ==
  IF c = None THEN [att |-> None, err |-> "claim cannot be nil"]
  ELSE IF w.PrivateKey = None THEN [att |-> None, err |-> "witness has no private key"]
  ELSE [att |-> Some([WitnessID |-> w.ID,
                      Signature |-> Sign(w.PrivateKey[1], c[1].ID),
                      Timestamp |-> now]),
        err |-> "nil"]

\* Witness.Attest(claim) at clock reading now; c is None for a nil claim
Attest(w, c, now) ==
  IF w.PrivateKey = None THEN [att |-> None, err |-> "witness has no private key"]
  ELSE IF c = None THEN [att |-> None, err |-> "claim cannot be nil"]
  ELSE [att |-> Some([WitnessID |-> w.ID,
                      Signature |-> Sign(w.PrivateKey[1], c[1].ID),
                      Timestamp |-> now]),
        err |-> "nil"]

\* a VerifyAttestation that never looks at the signature
VerifyAttestationNoSignature(c, a) ==
  IF c = None THEN "claim cannot be nil"
  ELSE IF a = None THEN "attestation cannot be nil"
  ELSE LET d == HexDecodeString(a[1].WitnessID)
       IN  IF d.err # "nil" THEN "invalid witness ID"
           ELSE IF Len(d.bytes) # PublicKeySize THEN "invalid public key length"
           ELSE "nil"

\* VerifyAttestation(claim, attestation): the error message, "nil" for none
VerifyAttestation(c, a) ==
  IF c = None THEN "claim cannot be nil"
  ELSE IF a = None THEN "attestation cannot be nil"
  ELSE LET d == HexDecodeString(a[1].WitnessID)
       IN  IF d.err # "nil" THEN "invalid witness ID"
           ELSE IF Len(d.bytes) # PublicKeySize THEN "invalid public key length"
           ELSE IF ~Verify(d.bytes, c[1].ID, a[1].Signature) THEN "invalid signature"
           ELSE "nil"

\* an AddAttestation without the duplicate check
AddAttestationNoDuplicateCheck(c, a) ==
  LET verr == VerifyAttestation(Some(c), a)
  IN  IF verr # "nil" THEN [claim |-> c, err |-> verr]
      ELSE [claim |-> [c EXCEPT !.Witnesses = Append(@, a[1])], err |-> "nil"]

\* an AddAttestation that looks for a duplicate before it verifies
AddAttestationDuplicateFirst(c, a) ==
  IF a # None /\ \E i \in 1..Len(c.Witnesses) : c.Witnesses[i].WitnessID = a[1].WitnessID
  THEN [claim |-> c, err |-> "witness already attested"]
  ELSE LET verr == VerifyAttestation(Some(c), a)
       IN  IF verr # "nil" THEN [claim |-> c, err |-> verr]
           ELSE [claim |-> [c EXCEPT !.Witnesses = Append(@, a[1])], err |-> "nil"]

\* an AddAttestation that replaces the list on a duplicate
AddAttestationReplaceOnDuplicate(c, a) ==
  LET verr == VerifyAttestation(Some(c), a)
  IN  IF verr # "nil" THEN [claim |-> c, err |-> verr]
      ELSE IF \E i \in 1..Len(c.Witnesses) : c.Witnesses[i].WitnessID = a[1].WitnessID
      THEN [claim |-> [c EXCEPT !.Witnesses = <<a[1]>>], err |-> "witness already attested"]
      ELSE [claim |-> [c EXCEPT !.Witnesses = Append(@, a[1])], err |-> "nil"]

\* an AddAttestation that puts the new entry first
AddAttestationPrepend(c, a) ==
  LET verr == VerifyAttestation(Some(c), a)
  IN  IF verr # "nil" THEN [claim |-> c, err |-> verr]
      ELSE IF \E i \in 1..Len(c.Witnesses) : c.Witnesses[i].WitnessID = a[1].WitnessID
      THEN [claim |-> c, err |-> "witness already attested"]
      ELSE [claim |-> [c EXCEPT !.Witnesses = <<a[1]>> \o @], err |-> "nil"]

\* Claim.AddAttestation(attestation): the claim afterwards and the error
AddAttestation(c, a) ==
  LET verr == VerifyAttestation(Some(c), a)
  IN  IF verr # "nil" THEN [claim |-> c, err |-> verr]
      ELSE IF \E i \in 1..Len(c.Witnesses) : c.Witnesses[i].WitnessID = a[1].WitnessID
      THEN [claim |-> c, err |-> "witness already attested"]
      ELSE [claim |-> [c EXCEPT !.Witnesses = Append(@, a[1])], err |-> "nil"]

(***************************************************************************)
(* The callers' inputs.                                                    *)
(***************************************************************************)
\* clock readings: time.Now().UTC(), nanoseconds after the epoch
Clock == {[hi |-> 0, lo |-> 1], [hi |-> 0, lo |-> 2]}

\* the id with its letters in upper case: hex.DecodeString reads it alike
ToUpper(str) ==
  [i \in 1..Len(str) |-> IF 97 <= str[i] /\ str[i] <= 122 THEN str[i] - 32 ELSE str[i]]

\* well-formed witness ids: each key's lower-case and upper-case hex text
GoodIDs == UNION {{HexEncodeToString(k), ToUpper(HexEncodeToString(k))} : k \in Keys}

\* ids that do not decode to a key: a non-hex character ('g'), and one byte
\* short of a key
BadIDs ==
  LET h == HexEncodeToString(KeyBytes(1))
  IN  {<<103>> \o Tail(h), Tail(Tail(h))}

IDs == GoodIDs \cup BadIDs

Statement(subject, predicate, object, domain) ==
  [Subject |-> subject, Predicate |-> predicate, Object |-> object, Domain |-> domain]

\* a claim other than the one under test: Statement{Subject: "o"}
OtherClaim == NewClaim(Statement(<<111>>, <<>>, <<>>, <<>>), <<>>, <<>>, [hi |-> 0, lo |-> 1])

\* the claim the attestation runs start from: every field set, the evidence
\* not in sorted order
LifecycleClaims ==
  {NewClaim(Statement(<<115>>, <<112>>, <<111>>, <<100>>), <<<<101, 50>>, <<101, 49>>>>,
            <<116>>, [hi |-> 0, lo |-> 1])}

\* XOR of the signature's first byte with 0xFF: att.Signature[0] ^= 0xFF
TamperSignature(sig) == [sig EXCEPT !.mask = 255 - @]

\* the signatures a caller can come by for claim c: each key's signature of
\* c's id, a signature of another claim's id, and a tampered signature
Signatures(c) ==
  {Sign(PrivateKeyOf(k), c.ID) : k \in Keys}
  \cup {Sign(PrivateKeyOf(KeyBytes(1)), OtherClaim.ID),
        TamperSignature(Sign(PrivateKeyOf(KeyBytes(1)), c.ID))}

\* the clock reading at which the attestations offered to a claim were made
SigningTime == [hi |-> 0, lo |-> 2]

\* the attestation arguments tried on claim c: nil, and any combination of
\* witness id and signature
AttInputs(c) ==
  {None} \cup {Some([WitnessID |-> id, Signature |-> sig, Timestamp |-> SigningTime]) :
                 id \in IDs, sig \in Signatures(c)}

\* the witnesses the constructors return, with the constructor's name
WitnessPool ==
  {[ctor |-> "GenerateWitness", wit |-> GenerateWitness(k)] : k \in Keys}
  \cup {[ctor |-> "WitnessFromPublicKey", wit |-> WitnessFromPublicKey(k)] : k \in Keys}
  \cup {[ctor |-> "WitnessFromID", wit |-> WitnessFromID(id).wit[1]] :
          id \in {x \in IDs : WitnessFromID(x).err = "nil"}}

MetadataValues == {{}, {<<"source", "cli">>}}

\* what the last call was: its name, its arguments and its results
Last(op, ctor, wit, clm, att, out, err) ==
  [op |-> op, ctor |-> ctor, wit |-> wit, clm |-> clm, att |-> att, out |-> out, err |-> err]

(***************************************************************************)
(* Spec: one claim through its attestation lifecycle.                      *)
(***************************************************************************)
Init ==
  /\ claim \in LifecycleClaims
  /\ last = Last("NewClaim", "", None, None, None, <<>>, "nil")
  /\ OthersIdle

AddAttestationCall ==
  \E a \in AttInputs(claim) :
    LET r == AddAttestation(claim, a)
    IN  /\ Len(r.claim.Witnesses) <= MaxAtt
        /\ claim' = r.claim
        /\ last' = Last("AddAttestation", "", None, None, a, <<>>, r.err)

SetMetadata ==
  \E m \in MetadataValues :
    /\ claim' = [claim EXCEPT !.Metadata = m]
    /\ last' = Last("SetMetadata", "", None, None, None, <<>>, "nil")

VerifyCIDCall ==
  LET r == VerifyCID(claim)
  IN  /\ claim' = r.claim
      /\ last' = Last("VerifyCID", "", None, None, None, <<>>, r.err)

Next ==
  /\ \/ AddAttestationCall
     \/ SetMetadata
     \/ VerifyCIDCall
  /\ UNCHANGED <<rs, heap, clock, held, procs, st>>

Spec == Init /\ [][Next]_vars

(***************************************************************************)
(* SpecWitness: the witness constructors and the signing operation, on a   *)
(* claim that stays as built.                                              *)
(***************************************************************************)
GenerateWitnessCall ==
  \E k \in Keys :
    /\ last' = Last("GenerateWitness", "GenerateWitness", Some(GenerateWitness(k)), None, None, <<>>, "nil")
    /\ UNCHANGED claim

WitnessFromPublicKeyCall ==
  \E k \in Keys :
    /\ last' = Last("WitnessFromPublicKey", "WitnessFromPublicKey",
                    Some(WitnessFromPublicKey(k)), None, None, <<>>, "nil")
    /\ UNCHANGED claim

WitnessFromIDCall ==
  \E id \in IDs :
    LET r == WitnessFromID(id)
    IN  /\ last' = Last("WitnessFromID", "WitnessFromID", r.wit, None, None, <<>>, r.err)
        /\ UNCHANGED claim

AttestCall ==
  \E p \in WitnessPool, c \in {None, Some(claim), Some(OtherClaim)}, now \in Clock :
    LET r == Attest(p.wit, c, now)
    IN  /\ last' = Last("Attest", p.ctor, Some(p.wit), c, r.att, <<>>, r.err)
        /\ UNCHANGED claim

VerifyAttestationCall ==
  \E c \in {None, Some(claim), Some(OtherClaim)}, a \in AttInputs(claim) :
    /\ last' = Last("VerifyAttestation", "", None, c, a, <<>>, VerifyAttestation(c, a))
    /\ UNCHANGED claim

NextWitness ==
  /\ \/ GenerateWitnessCall
     \/ WitnessFromPublicKeyCall
     \/ WitnessFromIDCall
     \/ AttestCall
     \/ VerifyAttestationCall
  /\ UNCHANGED <<rs, heap, clock, held, procs, st>>

SpecWitness == Init /\ [][NextWitness]_vars

(***************************************************************************)
(* SpecId: claim identity.  A claim is built from any identity content     *)
(* within the bounds; the caller then recomputes or verifies its id, or    *)
(* changes one identity-bearing field without recomputing the id and       *)
(* verifies.                                                               *)
(***************************************************************************)
\* the bytes strings are made of: 0 and 1 also occur in length prefixes
Alphabet == {0, 1}

StringsUpTo(n) == UNION {[1..l -> Alphabet] : l \in 0..n}

\* the sequences of n strings of at most w bytes in total
RECURSIVE SlotSeqs(_, _)
SlotSeqs(n, w) ==
  IF n = 0 THEN {<<>>}
  ELSE UNION {{<<str>> \o r : r \in SlotSeqs(n - 1, w - Len(str))} : str \in StringsUpTo(w)}

\* the arguments of NewClaim: statement, evidence, time event
IdentityInputs ==
  UNION {{[Statement |-> Statement(x[1], x[2], x[3], x[4]), TimeEvent |-> x[5],
           Evidence |-> SubSeq(x, 6, 5 + e)] : x \in SlotSeqs(5 + e, MaxTotal)} :
         e \in 0..MaxEvidence}

\* the values a caller can set Created to: the clock readings, and an instant
\* 2^64 nanoseconds later than one of them
CreatedValues == Clock \cup {[hi |-> 1, lo |-> 1]}

\* the identity-bearing content of a claim
Identity(c) ==
  [Statement |-> c.Statement, Evidence |-> c.Evidence, TimeEvent |-> c.TimeEvent,
   Created |-> c.Created]

\* every identity content within the bounds
IdentityTuples ==
  {[Statement |-> i.Statement, Evidence |-> i.Evidence, TimeEvent |-> i.TimeEvent,
    Created |-> t] : i \in IdentityInputs, t \in CreatedValues}

\* a claim object with the identity content t, its other fields empty
ClaimOf(t) ==
  [ID |-> <<>>, Statement |-> t.Statement, Evidence |-> t.Evidence,
   TimeEvent |-> t.TimeEvent, Witnesses |-> <<>>, Created |-> t.Created, Metadata |-> {}]

\* every identity content within the bounds, with its ComputeCID
IdTable == {<<t, ComputeCID(ClaimOf(t)).id>> : t \in IdentityTuples}

\* attestation lists a caller can put into the Witnesses field directly, as
\* TestComputeCID does
WitnessesValues ==
  {<<>>, <<[WitnessID |-> <<119>>, Signature |-> Sign(PrivateKeyOf(KeyBytes(1)), <<>>),
           Timestamp |-> SigningTime]>>}

InitId ==
  /\ claim \in {NewClaim(i.Statement, i.Evidence, i.TimeEvent, now) :
                  i \in IdentityInputs, now \in Clock}
  /\ last = Last("NewClaim", "", None, None, None, <<>>, "nil")
  /\ OthersIdle

\* ComputeCID(claim), the caller keeping the identifier it returns
ComputeCIDCall ==
  LET r == ComputeCID(claim)
  IN  /\ claim' = r.claim
      /\ last' = Last("ComputeCID", "", None, Some(claim), None, r.id, r.err)

\* the caller sets Witnesses and Metadata of a claim built by NewClaim
SetWitnessesAndMetadata ==
  \E w \in WitnessesValues, m \in MetadataValues :
    /\ last.op = "NewClaim"
    /\ claim' = [claim EXCEPT !.Witnesses = w, !.Metadata = m]
    /\ last' = Last("SetWitnessesAndMetadata", "", None, None, None, <<>>, "nil")

\* the identity content t with field f set to v
WithField(t, f, v) ==
  IF f \in {"Subject", "Predicate", "Object", "Domain"}
  THEN [t EXCEPT !.Statement = [@ EXCEPT ![f] = v]]
  ELSE [t EXCEPT ![f] = v]

\* the values a caller can give field f
FieldValues(f) ==
  IF f = "Evidence" THEN UNION {SlotSeqs(e, MaxTotal) : e \in 0..MaxEvidence}
  ELSE IF f = "Created" THEN CreatedValues
  ELSE StringsUpTo(MaxTotal)

\* the caller changes one identity-bearing field of a claim NewClaim returned,
\* does not recompute the id, and calls VerifyCID (as TestVerifyCID does)
ChangeFieldAndVerify ==
  /\ last.op = "NewClaim"
  /\ \E f \in {"Subject", "Predicate", "Object", "Domain", "Evidence", "TimeEvent", "Created"} :
       \E v \in FieldValues(f) :
         LET t == WithField(Identity(claim), f, v)
             changed == [claim EXCEPT !.Statement = t.Statement, !.Evidence = t.Evidence,
                                      !.TimeEvent = t.TimeEvent, !.Created = t.Created]
             r == VerifyCID(changed)
         IN  /\ t # Identity(claim)
             /\ t \in IdentityTuples
             /\ claim' = r.claim
             /\ last' = Last("ChangeFieldAndVerify", f, None, Some(claim), None, <<>>, r.err)

\* a run ends with the changed claim's verification
NextId ==
  /\ \/ last.op # "ChangeFieldAndVerify" /\ ComputeCIDCall
     \/ last.op # "ChangeFieldAndVerify" /\ VerifyCIDCall
     \/ SetWitnessesAndMetadata
     \/ ChangeFieldAndVerify
  /\ UNCHANGED <<rs, heap, clock, held, procs, st>>

SpecId == InitId /\ [][NextId]_vars

(***************************************************************************)
(* float64 arithmetic of the reputation engine, exactly: a value is the    *)
(* fraction <<n, d>> in lowest terms, d > 0.                               *)
(***************************************************************************)
RECURSIVE Gcd(_, _)
Gcd(a, b) == IF b = 0 THEN a ELSE Gcd(b, a % b)

\* the fraction n/d (d # 0) in lowest terms
Frac(n, d) ==
  IF d = 1 THEN <<n, 1>>
  ELSE IF n = 0 THEN <<0, 1>>
  ELSE LET g == Gcd(IF n < 0 THEN -n ELSE n, IF d < 0 THEN -d ELSE d)
           s == IF d < 0 THEN -1 ELSE 1
       IN  <<s * (n \div g), s * (d \div g)>>

\* float64(n) of an integer counter
FromInt(n) == <<n, 1>>

\* x + y, over the least common denominator
FAdd(x, y) ==
  IF x[2] = y[2] THEN Frac(x[1] + y[1], x[2])
  ELSE LET g == Gcd(x[2], y[2])
       IN  Frac(x[1] * (y[2] \div g) + y[1] * (x[2] \div g),
                x[2] * (y[2] \div g))

\* x - y
FSub(x, y) ==
  IF x[2] = y[2] THEN Frac(x[1] - y[1], x[2])
  ELSE LET g == Gcd(x[2], y[2])
       IN  Frac(x[1] * (y[2] \div g) - y[1] * (x[2] \div g),
                x[2] * (y[2] \div g))

\* x * y, cancelling across before multiplying
FMul(x, y) ==
  IF x[1] = 0 \/ y[1] = 0 THEN <<0, 1>>
  ELSE LET a == Frac(x[1], y[2])
           b == Frac(y[1], x[2])
       IN  Frac(a[1] * b[1], a[2] * b[2])

\* x / y, y # 0
FDiv(x, y) ==
  IF x[1] = 0 THEN <<0, 1>>
  ELSE LET a == Frac(x[1], y[1])
           b == Frac(y[2], x[2])
       IN  Frac(a[1] * b[1], a[2] * b[2])

\* x <= y (denominators are positive)
FLe(x, y) ==
  IF x[2] = y[2] THEN x[1] <= y[1]
  ELSE LET g == Gcd(x[2], y[2])
       IN  x[1] * (y[2] \div g) <= y[1] * (x[2] \div g)

\* math.Min, math.Max
MathMin(x, y) == IF FLe(x, y) THEN x ELSE y

MathMax(x, y) == IF FLe(x, y) THEN y ELSE x

(***************************************************************************)
(* The sums and products of ClaimConfidence exceed the checker's integers: *)
(* a wide natural number is its digits to the base 10000, lowest first,     *)
(* without leading zeros (0 is the empty sequence); a wide fraction is a   *)
(* pair <<numerator, denominator>> of wide naturals, denominator # 0.      *)
(***************************************************************************)

RECURSIVE Wide(_)
Wide(n) == IF n = 0 THEN <<>> ELSE <<n % 10000>> \o Wide(n \div 10000)

\* a + b + carry
RECURSIVE WideAddC(_, _, _)
WideAddC(a, b, carry) ==
  IF a = <<>> /\ b = <<>> THEN Wide(carry)
  ELSE LET x == IF a = <<>> THEN 0 ELSE Head(a)
           y == IF b = <<>> THEN 0 ELSE Head(b)
           s == x + y + carry
       IN  <<s % 10000>> \o WideAddC(IF a = <<>> THEN a ELSE Tail(a),
                                   IF b = <<>> THEN b ELSE Tail(b), s \div 10000)

WideAdd(a, b) == WideAddC(a, b, 0)

\* a * k + carry, for a digit k
RECURSIVE WideScale(_, _, _)
WideScale(a, k, carry) ==
  IF k = 0 THEN <<>>
  ELSE IF a = <<>> THEN Wide(carry)
  ELSE LET s == Head(a) * k + carry
       IN  <<s % 10000>> \o WideScale(Tail(a), k, s \div 10000)

RECURSIVE WideMul(_, _)
WideMul(a, b) ==
  IF a = <<>> \/ b = <<>> THEN <<>>
  ELSE LET rest == WideMul(a, Tail(b))
       IN  IF rest = <<>> THEN WideScale(a, Head(b), 0)
           ELSE WideAdd(WideScale(a, Head(b), 0), <<0>> \o rest)

\* a <= b
RECURSIVE WideLe(_, _)
WideLe(a, b) ==
  IF Len(a) # Len(b) THEN Len(a) < Len(b)
  ELSE IF a = <<>> THEN TRUE
  ELSE IF a[Len(a)] # b[Len(b)] THEN a[Len(a)] < b[Len(b)]
  ELSE WideLe(SubSeq(a, 1, Len(a) - 1), SubSeq(b, 1, Len(b) - 1))

\* the fraction x (not negative) as a wide fraction
WideFrac(x) == <<Wide(x[1]), Wide(x[2])>>

WFAdd(x, y) ==
  IF x[2] = y[2] THEN <<WideAdd(x[1], y[1]), x[2]>>
  ELSE <<WideAdd(WideMul(x[1], y[2]), WideMul(y[1], x[2])), WideMul(x[2], y[2])>>

WFMul(x, y) ==
  IF x[1] = <<>> \/ y[1] = <<>> THEN <<<<>>, <<1>>>>
  ELSE <<WideMul(x[1], y[1]), WideMul(x[2], y[2])>>

\* x / y, y # 0
WFDiv(x, y) ==
  IF x[1] = <<>> THEN <<<<>>, <<1>>>>
  ELSE <<WideMul(x[1], y[2]), WideMul(x[2], y[1])>>

WFLe(x, y) ==
  IF x[2] = y[2] THEN WideLe(x[1], y[1])
  ELSE WideLe(WideMul(x[1], y[2]), WideMul(y[1], x[2]))

WFEq(x, y) ==
  IF x[2] = y[2] THEN x[1] = y[1]
  ELSE WideMul(x[1], y[2]) = WideMul(y[1], x[2])

(***************************************************************************)
(* ReputationEngine.  Objects that the code reaches through pointers live  *)
(* in heap, a function from addresses to objects; a pointer is an address. *)
(* rs is the ReputationStore: its lock and its map from witness id to the  *)
(* address of the record.                                                  *)
(***************************************************************************)
\* &ReputationRecord{...} of witness w, held in rs.records
RecAddr(w) == [kind |-> "record", of |-> w, d |-> <<>>]

\* &DomainReputation{...} in the Domains map of w's record
DomAddr(w, d) == [kind |-> "domain", of |-> w, d |-> d]

\* &copy in GetRecord, called by owner o
CopyAddr(o) == [kind |-> "copy", of |-> o, d |-> <<>>]

\* &domainCopy in GetRecord, called by owner o
CopyDomAddr(o, d) == [kind |-> "domainCopy", of |-> o, d |-> d]

\* the empty map
EmptyMap == [x \in {} |-> x]

\* m[k] = v
MapPut(m, k, v) == (k :> v) @@ m

\* the engine's memory: the records map and the heap
Mem(records, h) == [records |-> records, heap |-> h]

\* NewReputationStore
NewReputationStore == [mu |-> [writer |-> None, readers |-> {}], records |-> EmptyMap]

\* RecordAttestation, lines 80-88: the record of w, created if absent
FindOrCreate(m, w, t) ==
  IF w \in DOMAIN m.records THEN m
  ELSE Mem(MapPut(m.records, w, RecAddr(w)),
           MapPut(m.heap, RecAddr(w),
                  [WitnessID |-> w, TotalClaims |-> 0, AgreedClaims |-> 0,
                   DisputedClaims |-> 0, Domains |-> EmptyMap,
                   FirstSeen |-> t, LastSeen |-> None]))

\* RecordAttestation, lines 90-91: record.TotalClaims = v; record.LastSeen = now
StoreTotal(m, w, v, t) ==
  Mem(m.records, [m.heap EXCEPT ![m.records[w]].TotalClaims = v,
                                ![m.records[w]].LastSeen = Some(t)])

\* RecordAttestation, lines 93-100: the domain's entry, created if absent,
\* and its TotalClaims incremented
BumpDomainTotal(m, w, d) ==
  IF d = <<>> THEN m
  ELSE LET r  == m.records[w]
           h1 == IF d \in DOMAIN m.heap[r].Domains THEN m.heap
                 ELSE MapPut([m.heap EXCEPT ![r].Domains = MapPut(@, d, DomAddr(w, d))],
                             DomAddr(w, d),
                             [Domain |-> d, TotalClaims |-> 0, AgreedClaims |-> 0,
                              DisputedClaims |-> 0])
           a  == h1[r].Domains[d]
       IN  Mem(m.records, [h1 EXCEPT ![a].TotalClaims = @ + 1])

\* a RecordAttestation that counts a witness once per domain
RecordAttestationOnce(m, w, d, t) ==
  IF w \in DOMAIN m.records /\ d \in DOMAIN m.heap[m.records[w]].Domains THEN m
  ELSE LET m1 == FindOrCreate(m, w, t)
           m2 == StoreTotal(m1, w, m1.heap[m1.records[w]].TotalClaims + 1, t)
       IN  BumpDomainTotal(m2, w, d)

\* RecordAttestation(witnessID, domain) at clock reading t, the lock held
RecordAttestation(m, w, d, t) ==
  LET m1 == FindOrCreate(m, w, t)
      m2 == StoreTotal(m1, w, m1.heap[m1.records[w]].TotalClaims + 1, t)
  IN  BumpDomainTotal(m2, w, d)

\* lines 113 and 132: record.AgreedClaims = v, or record.DisputedClaims = v
StoreOutcome(m, w, field, v) ==
  Mem(m.records, [m.heap EXCEPT ![m.records[w]][field] = v])

\* a counting of the domain's outcome that creates the entry it does not find
BumpDomainOutcomeCreating(m, w, d, field) ==
  LET r  == m.records[w]
      h1 == IF d \in DOMAIN m.heap[r].Domains THEN m.heap
            ELSE MapPut([m.heap EXCEPT ![r].Domains = MapPut(@, d, DomAddr(w, d))],
                        DomAddr(w, d),
                        [Domain |-> d, TotalClaims |-> 0, AgreedClaims |-> 0,
                         DisputedClaims |-> 0])
  IN  IF d # <<>>
      THEN Mem(m.records, [h1 EXCEPT ![h1[r].Domains[d]][field] = @ + 1])
      ELSE m

\* lines 115-119 and 134-138: the domain's counter incremented if the domain
\* is given and the record has an entry for it
BumpDomainOutcome(m, w, d, field) ==
  LET r == m.records[w]
  IN  IF d # <<>> /\ d \in DOMAIN m.heap[r].Domains
      THEN Mem(m.records, [m.heap EXCEPT ![m.heap[r].Domains[d]][field] = @ + 1])
      ELSE m

\* a recording of an outcome that creates the record it does not find
RecordOutcomeCreating(m, w, d, field) ==
  LET m1 == FindOrCreate(m, w, 0)
  IN  BumpDomainOutcome(StoreOutcome(m1, w, field, m1.heap[m1.records[w]][field] + 1),
                        w, d, field)

\* the body RecordAgreement and RecordDispute share: field is "AgreedClaims"
\* (lines 108-119) or "DisputedClaims" (lines 127-138)
RecordOutcome(m, w, d, field) ==
  IF w \notin DOMAIN m.records THEN m
  ELSE BumpDomainOutcome(StoreOutcome(m, w, field, m.heap[m.records[w]][field] + 1),
                         w, d, field)

\* RecordAgreement(witnessID, domain), the lock held
RecordAgreement(m, w, d) == RecordOutcome(m, w, d, "AgreedClaims")

\* RecordDispute(witnessID, domain), the lock held
RecordDispute(m, w, d) == RecordOutcome(m, w, d, "DisputedClaims")

\* the heap without the objects of owner o's earlier GetRecord result
Release(h, o) ==
  [a \in {x \in DOMAIN h : ~(x.kind \in {"copy", "domainCopy"} /\ x.of = o)} |-> h[a]]

\* lines 66-67: copy := *record; copy.Domains = make(map[string]*DomainReputation)
CopyRecord(m, w, o) ==
  Mem(m.records, MapPut(Release(m.heap, o), CopyAddr(o),
                        [m.heap[m.records[w]] EXCEPT !.Domains = EmptyMap]))

\* lines 68-71: every domain entry of the record copied, and the copy's map
\* pointing to the copies
CopyDomains(m, w, o) ==
  LET record == m.heap[m.records[w]]
      h1 == [a \in DOMAIN m.heap \cup {CopyDomAddr(o, k) : k \in DOMAIN record.Domains} |->
               IF a \in DOMAIN m.heap THEN m.heap[a] ELSE m.heap[record.Domains[a.d]]]
  IN  Mem(m.records,
          [h1 EXCEPT ![CopyAddr(o)].Domains = [k \in DOMAIN record.Domains |-> CopyDomAddr(o, k)]])

\* a GetRecord that copies the record and shares its domain entries
GetRecordShallow(m, w, o) ==
  IF w \notin DOMAIN m.records THEN [mem |-> m, ptr |-> None, exists |-> FALSE]
  ELSE [mem |-> Mem(m.records, MapPut(Release(m.heap, o), CopyAddr(o), m.heap[m.records[w]])),
        ptr |-> Some(CopyAddr(o)), exists |-> TRUE]

\* GetRecord(witnessID), called by o with the read lock held: the pointer to
\* the copy, and the memory with the copy in it
GetRecord(m, w, o) ==
  IF w \notin DOMAIN m.records THEN [mem |-> m, ptr |-> None, exists |-> FALSE]
  ELSE [mem |-> CopyDomains(CopyRecord(m, w, o), w, o),
        ptr |-> Some(CopyAddr(o)), exists |-> TRUE]

\* the record at address p with its domain entries in place of their pointers
Deref(h, p) == [h[p] EXCEPT !.Domains = [k \in DOMAIN h[p].Domains |-> h[h[p].Domains[k]]]]

\* the engine's records, each with its domain entries, by witness id
Engine(records, h) == [w \in DOMAIN records |-> Deref(h, records[w])]

(***************************************************************************)
(* Scoring.  Clock readings are whole hours; rr is the record object a     *)
(* *ReputationRecord points to, h the heap its domain entries live in.     *)
(***************************************************************************)
\* lines 156-157: math.Min(age.Hours()/(24*365), 0.1); age in hours is
\* the clock reading t less rr.FirstSeen
LongevityBonus(rr, t) ==
  MathMin(FDiv(FromInt(t - rr.FirstSeen), FromInt(24 * 365)), Frac(1, 10))

\* a blend that adds the dispute penalty instead of subtracting it
BlendedScoreAddingPenalty(rr, t) ==
  LET accuracy     == FDiv(FromInt(rr.AgreedClaims), FromInt(rr.TotalClaims))
      disputeRatio == FDiv(FromInt(rr.DisputedClaims), FromInt(rr.TotalClaims))
      penalty      == FMul(disputeRatio, Frac(1, 2))
      volumeWeight == MathMin(FDiv(FromInt(rr.TotalClaims), FromInt(100)), FromInt(1))
      rawScore     == FAdd(FAdd(accuracy, penalty), LongevityBonus(rr, t))
  IN  FAdd(FMul(rawScore, volumeWeight), FMul(Frac(1, 2), FSub(FromInt(1), volumeWeight)))

\* lines 149-166: the score before it is clamped
BlendedScore(rr, t) ==
  LET accuracy     == FDiv(FromInt(rr.AgreedClaims), FromInt(rr.TotalClaims))
      disputeRatio == FDiv(FromInt(rr.DisputedClaims), FromInt(rr.TotalClaims))
      penalty      == FMul(disputeRatio, Frac(1, 2))
      volumeWeight == MathMin(FDiv(FromInt(rr.TotalClaims), FromInt(100)), FromInt(1))
      rawScore     == FAdd(FSub(accuracy, penalty), LongevityBonus(rr, t))
  IN  FAdd(FMul(rawScore, volumeWeight), FMul(Frac(1, 2), FSub(FromInt(1), volumeWeight)))

\* a Score that returns the blend as it is
ScoreUnclamped(rr, t) ==
  IF rr.TotalClaims = 0 THEN Frac(1, 2) ELSE BlendedScore(rr, t)

\* ReputationRecord.Score, evaluated at clock reading t
Score(rr, t) ==
  IF rr.TotalClaims = 0 THEN Frac(1, 2)
  ELSE MathMax(FromInt(0), MathMin(FromInt(1), BlendedScore(rr, t)))

\* a DomainScore whose volume weight is full at 100 claims, as the global
\* score's
DomainScoreFullAtHundred(h, rr, domain, t) ==
  IF domain \notin DOMAIN rr.Domains \/ h[rr.Domains[domain]].TotalClaims = 0
  THEN Score(rr, t)
  ELSE LET domainRep    == h[rr.Domains[domain]]
           accuracy     == FDiv(FromInt(domainRep.AgreedClaims), FromInt(domainRep.TotalClaims))
           disputeRatio == FDiv(FromInt(domainRep.DisputedClaims), FromInt(domainRep.TotalClaims))
           penalty      == FMul(disputeRatio, Frac(1, 2))
           volumeWeight == MathMin(FDiv(FromInt(domainRep.TotalClaims), FromInt(100)), FromInt(1))
           rawScore     == FSub(accuracy, penalty)
           score        == FAdd(FMul(rawScore, volumeWeight),
                                FMul(Score(rr, t), FSub(FromInt(1), volumeWeight)))
       IN  MathMax(FromInt(0), MathMin(FromInt(1), score))

\* ReputationRecord.DomainScore(domain), evaluated at clock reading t
DomainScore(h, rr, domain, t) ==
  IF domain \notin DOMAIN rr.Domains \/ h[rr.Domains[domain]].TotalClaims = 0
  THEN Score(rr, t)
  ELSE LET domainRep    == h[rr.Domains[domain]]
           accuracy     == FDiv(FromInt(domainRep.AgreedClaims), FromInt(domainRep.TotalClaims))
           disputeRatio == FDiv(FromInt(domainRep.DisputedClaims), FromInt(domainRep.TotalClaims))
           penalty      == FMul(disputeRatio, Frac(1, 2))
           volumeWeight == MathMin(FDiv(FromInt(domainRep.TotalClaims), FromInt(50)), FromInt(1))
           rawScore     == FSub(accuracy, penalty)
           score        == FAdd(FMul(rawScore, volumeWeight),
                                FMul(Score(rr, t), FSub(FromInt(1), volumeWeight)))
       IN  MathMax(FromInt(0), MathMin(FromInt(1), score))

\* line 220: math.Min(float64(len(claim.Witnesses))/5, 0.2)
WitnessBonus(n) ==
  IF WFLe(WideFrac(Frac(n, 5)), WideFrac(Frac(1, 5)))
  THEN WideFrac(Frac(n, 5)) ELSE WideFrac(Frac(1, 5))

\* a turn of the loop that gives every witness the weight 1
AccumulateUnweighted(sums, score) ==
  [weightedSum |-> WFAdd(sums.weightedSum, WideFrac(score)),
   totalWeight |-> WFAdd(sums.totalWeight, WideFrac(Frac(1, 1)))]

\* lines 200-213, one turn of the loop: the sums with the score added
Accumulate(sums, score) ==
  LET s      == WideFrac(score)
      weight == WFAdd(WideFrac(Frac(1, 2)), WFMul(s, WideFrac(Frac(1, 2))))
  IN  [weightedSum |-> WFAdd(sums.weightedSum, WFMul(s, weight)),
       totalWeight |-> WFAdd(sums.totalWeight, weight)]

\* lines 197-198: var totalWeight, weightedSum float64
ZeroSums == [weightedSum |-> WideFrac(Frac(0, 1)), totalWeight |-> WideFrac(Frac(0, 1))]

\* a confidence that is the quotient and the bonus, as they are
CombineUnclamped(sums, n) ==
  IF sums.totalWeight[1] = <<>> THEN WideFrac(Frac(0, 1))
  ELSE WFAdd(WFDiv(sums.weightedSum, sums.totalWeight), WitnessBonus(n))

\* lines 215-223: the confidence from the sums over n witnesses
Combine(sums, n) ==
  IF sums.totalWeight[1] = <<>> THEN WideFrac(Frac(0, 1))
  ELSE LET confidence == WFAdd(WFDiv(sums.weightedSum, sums.totalWeight), WitnessBonus(n))
           capped     == IF WFLe(confidence, WideFrac(Frac(1, 1)))
                         THEN confidence ELSE WideFrac(Frac(1, 1))
       IN  IF WFLe(WideFrac(Frac(0, 1)), capped) THEN capped ELSE WideFrac(Frac(0, 1))

\* lines 201-207: the score of the claim's i-th attesting witness, read by
\* owner o through GetRecord at clock reading t
WitnessScore(m, c, i, t, o) ==
  LET g == GetRecord(m, c.Witnesses[i].WitnessID, o)
  IN  IF g.exists
      THEN DomainScore(g.mem.heap, g.mem.heap[g.ptr[1]], c.Statement.Domain, t)
      ELSE Frac(1, 2)

\* lines 200-213: the loop from the i-th witness on
RECURSIVE ConfidenceSums(_, _, _, _, _, _)
ConfidenceSums(m, c, i, t, o, sums) ==
  IF i > Len(c.Witnesses) THEN sums
  ELSE ConfidenceSums(m, c, i + 1, t, o, Accumulate(sums, WitnessScore(m, c, i, t, o)))

\* ClaimConfidence(claim, store) with no recording call running beside it
ClaimConfidence(c, m, t, o) ==
  IF Len(c.Witnesses) = 0 THEN WideFrac(Frac(0, 1))
  ELSE Combine(ConfidenceSums(m, c, 1, t, o, ZeroSums), Len(c.Witnesses))

(***************************************************************************)
(* SpecRep: one caller on a reputation engine.                             *)
(***************************************************************************)
\* the witnesses whose outcomes are reported
RepWitnesses == {HexEncodeToString(KeyBytes(1)), HexEncodeToString(KeyBytes(2))}

\* the domain arguments: none, the domain "d" of the claims scored, and "x"
DomainNames == {<<>>, <<100>>, <<120>>}

\* clock readings in hours: the start, and 876 h (a tenth of a year) later
Instants == {0, 876}

\* the owner of the results the single caller holds
Caller == <<0>>

\* the domain of the claims scored
ScoredDomain == {<<100>>}

\* the witness whose outcomes are reported one by one beside a history, and
\* whose record a caller keeps
HeldWitness == {HexEncodeToString(KeyBytes(1))}

\* the claim of LifecycleClaims with the attestations of the first n witnesses
RECURSIVE AttestedBy(_)
AttestedBy(n) ==
  IF n = 0 THEN CHOOSE c \in LifecycleClaims : TRUE
  ELSE LET c == AttestedBy(n - 1)
       IN  AddAttestation(c, Attest(GenerateWitness(KeyBytes(n)), Some(c), SigningTime).att).claim

\* the claims whose confidence is asked for: none, one and two witnesses
ScoredClaims == {AttestedBy(n) : n \in 0..2}

\* line 160: the number of claims at which volumeWeight reaches 1; a
\* reported history has this many claims (spec scenario 4)
FullVolume == 100

\* the recording calls made one by one so far that changed a counter (the
\* calls of a reported history are not counted)
RECURSIVE Events(_, _)
Events(records, h) ==
  IF DOMAIN records = {} THEN 0
  ELSE LET w == CHOOSE x \in DOMAIN records : TRUE
           r == h[records[w]]
       IN  (r.TotalClaims % FullVolume) + (r.AgreedClaims % FullVolume)
           + (r.DisputedClaims % FullVolume)
           + Events([x \in DOMAIN records \ {w} |-> records[x]], h)

InitRep ==
  /\ claim \in LifecycleClaims
  /\ last = Last("NewReputationStore", "", None, None, None, <<>>, "nil")
  /\ rs = NewReputationStore
  /\ heap = EmptyMap
  /\ clock = 0
  /\ held = None
  /\ procs = Idle
  /\ st = Idle

\* store.RecordAttestation(w, d) for a witness of W and a domain of D
RecordAttestationOn(W, D) ==
  \E w \in W, d \in D :
    LET m == RecordAttestation(Mem(rs.records, heap), w, d, clock)
    IN  /\ Events(rs.records, heap) < MaxEvents
        /\ rs' = [rs EXCEPT !.records = m.records]
        /\ heap' = m.heap
        /\ last' = Last("RecordAttestation", "", None, None, None, <<w, d>>, "nil")
        /\ UNCHANGED <<claim, clock, held, procs, st>>

\* store.RecordAgreement(w, d) for a witness of W and a domain of D
RecordAgreementOn(W, D) ==
  \E w \in W, d \in D :
    LET m == RecordAgreement(Mem(rs.records, heap), w, d)
    IN  /\ Events(rs.records, heap) < MaxEvents
        /\ rs' = [rs EXCEPT !.records = m.records]
        /\ heap' = m.heap
        /\ last' = Last("RecordAgreement", "", None, None, None, <<w, d>>, "nil")
        /\ UNCHANGED <<claim, clock, held, procs, st>>

\* store.RecordDispute(w, d) for a witness of W and a domain of D
RecordDisputeOn(W, D) ==
  \E w \in W, d \in D :
    LET m == RecordDispute(Mem(rs.records, heap), w, d)
    IN  /\ Events(rs.records, heap) < MaxEvents
        /\ rs' = [rs EXCEPT !.records = m.records]
        /\ heap' = m.heap
        /\ last' = Last("RecordDispute", "", None, None, None, <<w, d>>, "nil")
        /\ UNCHANGED <<claim, clock, held, procs, st>>

\* rep, _ := store.GetRecord(w); rep.Score(); rep.DomainScore(d)
ScoreCall ==
  \E w \in RepWitnesses, d \in ScoredDomain :
    LET g == GetRecord(Mem(rs.records, heap), w, Caller)
    IN  /\ g.exists
        /\ last' = Last("Score", "", None, None, None,
                        [w |-> w, d |-> d,
                         score |-> Score(g.mem.heap[g.ptr[1]], clock),
                         domainScore |-> DomainScore(g.mem.heap, g.mem.heap[g.ptr[1]], d, clock)],
                        "nil")
        /\ UNCHANGED <<claim, rs, heap, clock, held, procs, st>>

\* ClaimConfidence(c, store)
ClaimConfidenceCall ==
  \E c \in ScoredClaims :
    /\ last' = Last("ClaimConfidence", "", None, Some(c), None,
                    ClaimConfidence(c, Mem(rs.records, heap), clock, Caller), "nil")
    /\ UNCHANGED <<claim, rs, heap, clock, held, procs, st>>

\* time passes
Tick ==
  /\ \E t \in Instants : t > clock /\ clock' = t
  /\ last' = Last("Tick", "", None, None, None, <<>>, "nil")
  /\ UNCHANGED <<claim, rs, heap, held, procs, st>>

NextRep ==
  \/ RecordAttestationOn(RepWitnesses, DomainNames)
  \/ RecordAgreementOn(RepWitnesses, DomainNames)
  \/ RecordDisputeOn(RepWitnesses, DomainNames)
  \/ Tick

SpecRep == InitRep /\ [][NextRep]_vars

(***************************************************************************)
(* SpecScore: scores and confidence on an engine that holds histories.     *)
(***************************************************************************)
\* n times RecordAttestation(w, d) and then the outcome's call; the calls
\* are made one after the other, the first half of them before the rest
RECURSIVE History(_, _, _, _, _, _)
History(n, m, w, d, field, t) ==
  IF n = 0 THEN m
  ELSE IF n = 1 THEN RecordOutcome(RecordAttestation(m, w, d, t), w, d, field)
  ELSE LET half == History(n \div 2, m, w, d, field, t)
       IN  IF w \in DOMAIN half.records
           THEN History(n - (n \div 2), half, w, d, field, t)
           ELSE half

\* the caller reports a history of a witness not seen before: every claim
\* attested, and every one agreed or every one disputed (spec scenario 4)
ReportHistory ==
  \E w \in RepWitnesses, d \in ScoredDomain, field \in {"AgreedClaims", "DisputedClaims"} :
    LET m == History(FullVolume, Mem(rs.records, heap), w, d, field, clock)
    IN  /\ w \notin DOMAIN rs.records
        /\ procs # Idle => \A p \in DOMAIN procs.threads : procs.threads[p].pc = "idle"
        /\ rs' = [rs EXCEPT !.records = m.records]
        /\ heap' = m.heap
        /\ procs' = IF procs = Idle THEN procs ELSE [procs EXCEPT !.atomic = m]
        /\ last' = Last("ReportHistory", "", None, None, None, <<w, d, field>>, "nil")
        /\ UNCHANGED <<claim, clock, held, st>>

NextScore ==
  \/ ReportHistory
  \/ RecordAttestationOn(HeldWitness, ScoredDomain)
  \/ RecordAgreementOn(HeldWitness, {<<>>})
  \/ RecordDisputeOn(HeldWitness, ScoredDomain)
  \/ ScoreCall
  \/ ClaimConfidenceCall
  \/ Tick

SpecScore == InitRep /\ [][NextScore]_vars

(***************************************************************************)
(* SpecCopy: a caller keeps the record GetRecord returned while the engine *)
(* records further outcomes of that witness, and writes to its copy.       *)
(***************************************************************************)

\* record, exists := store.GetRecord(w): the caller keeps the pointer
GetRecordCall ==
  \E w \in RepWitnesses :
    LET g == GetRecord(Mem(rs.records, heap), w, Caller)
    IN  /\ heap' = g.mem.heap
        /\ held' = g.ptr
        /\ last' = Last("GetRecord", "", None, None, None, <<w, g.exists>>, "nil")
        /\ UNCHANGED <<claim, rs, clock, procs, st>>

\* the caller writes to TotalClaims of the record it holds, or of one of
\* that record's domain entries
CallerWrites ==
  /\ held # None
  /\ \E a \in {held[1]} \cup {heap[held[1]].Domains[k] : k \in DOMAIN heap[held[1]].Domains},
        v \in {0, 5} :
       /\ heap' = [heap EXCEPT ![a].TotalClaims = v]
       /\ last' = Last("CallerWrites", "", None, None, None, <<a, v>>, "nil")
  /\ UNCHANGED <<claim, rs, clock, held, procs, st>>

NextCopy ==
  \/ RecordAttestationOn(HeldWitness, DomainNames)
  \/ RecordAgreementOn(HeldWitness, DomainNames)
  \/ RecordDisputeOn(HeldWitness, DomainNames)
  \/ GetRecordCall
  \/ CallerWrites

SpecCopy == InitRep /\ [][NextCopy]_vars

(***************************************************************************)
(* SpecConc: threads call the engine at the same time.  A call is a        *)
(* sequence of steps: taking rs.mu, the reads and writes of its body, and  *)
(* the deferred release with its last step.  procs.threads is each         *)
(* thread's position and locals; procs.atomic is the memory the recording  *)
(* calls give when each runs whole at the moment it takes the lock.        *)
(***************************************************************************)
\* the threads that record, and the thread that computes confidences
Recorders == {<<1>>, <<2>>}

Reader == <<3>>

\* the counter a recording call increments
FieldOf(op) ==
  IF op = "RecordAttestation" THEN "TotalClaims"
  ELSE IF op = "RecordAgreement" THEN "AgreedClaims" ELSE "DisputedClaims"

\* the recording call op(w, d) run whole
Atomically(m, op, w, d, t) ==
  IF op = "RecordAttestation" THEN RecordAttestation(m, w, d, t)
  ELSE RecordOutcome(m, w, d, FieldOf(op))

\* a Lock that never waits
CanLockAlways(mu) == TRUE

\* rs.mu.Lock() returns: no writer and no reader holds the mutex
CanLock(mu) == mu.writer = None /\ mu.readers = {}

\* rs.mu.RLock() returns: no writer holds the mutex
CanRLock(mu) == mu.writer = None

InitConc ==
  /\ claim \in LifecycleClaims
  /\ last = Last("NewReputationStore", "", None, None, None, <<>>, "nil")
  /\ rs = NewReputationStore
  /\ heap = EmptyMap
  /\ clock = 0
  /\ held = None
  /\ procs = [threads |-> [p \in Recorders \cup {Reader} |-> [pc |-> "idle"]],
              atomic |-> Mem(EmptyMap, EmptyMap)]
  /\ st = Idle

\* a recorder calls op(w, d): lines 77, 105, 124, rs.mu.Lock()
Lock ==
  \E p \in Recorders, op \in {"RecordAttestation", "RecordAgreement", "RecordDispute"},
     w \in HeldWitness, d \in ScoredDomain :
    /\ procs.threads[p].pc = "idle"
    /\ CanLock(rs.mu)
    /\ Events(procs.atomic.records, procs.atomic.heap) < MaxEvents
    /\ rs' = [rs EXCEPT !.mu.writer = Some(p)]
    /\ procs' = [procs EXCEPT
                   !.threads[p] = [pc |-> "find", op |-> op, w |-> w, d |-> d, tmp |-> 0],
                   !.atomic = Atomically(@, op, w, d, clock)]
    /\ UNCHANGED <<claim, last, heap, clock, held, st>>

\* lines 80-90, 108-113, 127-132: the record looked up (created by
\* RecordAttestation, the call over for the others if there is none) and
\* its counter read
Find ==
  \E p \in Recorders :
    LET t  == procs.threads[p]
        m1 == FindOrCreate(Mem(rs.records, heap), t.w, clock)
    IN  /\ t.pc = "find"
        /\ IF t.op # "RecordAttestation" /\ t.w \notin DOMAIN rs.records
           THEN /\ rs' = [rs EXCEPT !.mu.writer = None]
                /\ procs' = [procs EXCEPT !.threads[p] = [pc |-> "idle"]]
                /\ last' = Last(t.op, "", None, None, None, <<t.w, t.d>>, "nil")
                /\ UNCHANGED heap
           ELSE /\ rs' = [rs EXCEPT !.records = m1.records]
                /\ heap' = m1.heap
                /\ procs' = [procs EXCEPT !.threads[p] = [t EXCEPT !.pc = "store",
                                            !.tmp = m1.heap[m1.records[t.w]][FieldOf(t.op)]]]
                /\ UNCHANGED last
        /\ UNCHANGED <<claim, clock, held, st>>

\* lines 90-91, 113, 132: the counter written, one more than was read
Store ==
  \E p \in Recorders :
    LET t == procs.threads[p]
        m == Mem(rs.records, heap)
    IN  /\ t.pc = "store"
        /\ heap' = IF t.op = "RecordAttestation"
                   THEN StoreTotal(m, t.w, t.tmp + 1, clock).heap
                   ELSE StoreOutcome(m, t.w, FieldOf(t.op), t.tmp + 1).heap
        /\ procs' = [procs EXCEPT !.threads[p] = [t EXCEPT !.pc = "domain"]]
        /\ UNCHANGED <<claim, last, rs, clock, held, st>>

\* lines 93-101, 115-120, 134-139: the domain's counter, and the deferred
\* rs.mu.Unlock()
DomainAndUnlock ==
  \E p \in Recorders :
    LET t == procs.threads[p]
        m == Mem(rs.records, heap)
    IN  /\ t.pc = "domain"
        /\ heap' = IF t.op = "RecordAttestation"
                   THEN BumpDomainTotal(m, t.w, t.d).heap
                   ELSE BumpDomainOutcome(m, t.w, t.d, FieldOf(t.op)).heap
        /\ rs' = [rs EXCEPT !.mu.writer = None]
        /\ procs' = [procs EXCEPT !.threads[p] = [pc |-> "idle"]]
        /\ last' = Last(t.op, "", None, None, None, <<t.w, t.d>>, "nil")
        /\ UNCHANGED <<claim, clock, held, st>>

\* ClaimConfidence(c, store) is called: lines 193-198
BeginConfidence ==
  \E c \in ScoredClaims :
    /\ procs.threads[Reader].pc = "idle"
    /\ IF Len(c.Witnesses) = 0
       THEN /\ last' = Last("ClaimConfidence", "", None, Some(c), None, WideFrac(Frac(0, 1)), "nil")
            /\ UNCHANGED procs
       ELSE /\ procs' = [procs EXCEPT !.threads[Reader] = [pc |-> "rlock", c |-> c, i |-> 1,
                                                       sums |-> ZeroSums]]
            /\ UNCHANGED last
    /\ UNCHANGED <<claim, rs, heap, clock, held, st>>

\* line 201 calls GetRecord; line 57, rs.mu.RLock()
RLock ==
  /\ procs.threads[Reader].pc = "rlock"
  /\ CanRLock(rs.mu)
  /\ rs' = [rs EXCEPT !.mu.readers = @ \cup {Reader}]
  /\ procs' = [procs EXCEPT !.threads[Reader] = [@ EXCEPT !.pc = "copy"]]
  /\ UNCHANGED <<claim, last, heap, clock, held, st>>

\* lines 60-67: nil, false and the deferred RUnlock if there is no record;
\* else the record copied, its Domains a new map
CopyRecordStep ==
  LET t == procs.threads[Reader]
      ReadWitness == t.c.Witnesses[t.i].WitnessID
  IN
  /\ procs.threads[Reader].pc = "copy"
  /\ IF ReadWitness \notin DOMAIN rs.records
     THEN /\ rs' = [rs EXCEPT !.mu.readers = @ \ {Reader}]
          /\ procs' = [procs EXCEPT !.threads[Reader] = [@ EXCEPT !.pc = "score"]]
          /\ UNCHANGED heap
     ELSE /\ heap' = CopyRecord(Mem(rs.records, heap), ReadWitness, Reader).heap
          /\ procs' = [procs EXCEPT !.threads[Reader] = [@ EXCEPT !.pc = "domains"]]
          /\ UNCHANGED rs
  /\ held' = None
  /\ UNCHANGED <<claim, last, clock, st>>

\* lines 68-72: the domain entries copied, &copy returned, and the deferred
\* rs.mu.RUnlock()
CopyDomainsStep ==
  LET t == procs.threads[Reader]
      ReadWitness == t.c.Witnesses[t.i].WitnessID
  IN
  /\ procs.threads[Reader].pc = "domains"
  /\ heap' = CopyDomains(Mem(rs.records, heap), ReadWitness, Reader).heap
  /\ held' = Some(CopyAddr(Reader))
  /\ rs' = [rs EXCEPT !.mu.readers = @ \ {Reader}]
  /\ procs' = [procs EXCEPT !.threads[Reader] = [@ EXCEPT !.pc = "score"]]
  /\ UNCHANGED <<claim, last, clock, st>>

\* lines 202-213: the score of the record returned, or 0.5, added to the
\* sums; after the last attestation lines 215-223, the confidence returned
ScoreStep ==
  LET t     == procs.threads[Reader]
      score == IF held = None THEN Frac(1, 2)
               ELSE DomainScore(heap, heap[held[1]], t.c.Statement.Domain, clock)
      sums  == Accumulate(t.sums, score)
  IN  /\ t.pc = "score"
      /\ heap' = Release(heap, Reader)
      /\ held' = None
      /\ IF t.i = Len(t.c.Witnesses)
         THEN /\ procs' = [procs EXCEPT !.threads[Reader] = [pc |-> "idle"]]
              /\ last' = Last("ClaimConfidence", "", None, Some(t.c), None,
                              Combine(sums, Len(t.c.Witnesses)), "nil")
         ELSE /\ procs' = [procs EXCEPT !.threads[Reader] = [t EXCEPT !.pc = "rlock", !.i = @ + 1, !.sums = sums]]
              /\ UNCHANGED last
      /\ UNCHANGED <<claim, rs, clock, st>>

NextConc ==
  \/ ReportHistory
  \/ Lock
  \/ Find
  \/ Store
  \/ DomainAndUnlock
  \/ BeginConfidence
  \/ RLock
  \/ CopyRecordStep
  \/ CopyDomainsStep
  \/ ScoreStep

SpecConc == InitConc /\ [][NextConc]_vars

(***************************************************************************)
(* IPFSStore.  s is the store's local index: index, byWitness, byDomain    *)
(* and bySubject.  index holds the pointers the callers passed to Put, so  *)
(* the claim at index[cid] is the object its caller still holds.           *)
(***************************************************************************)
\* NewIPFSStore, lines 42-51
NewIPFSStore ==
  [index |-> EmptyMap, byWitness |-> EmptyMap, byDomain |-> EmptyMap, bySubject |-> EmptyMap]

\* m[k] = append(m[k], v); m[k] of an absent key is nil
AppendAt(m, k, v) == MapPut(m, k, Append(IF k \in DOMAIN m THEN m[k] ELSE <<>>, v))

\* IPFSStore.indexClaim
indexClaim(s, c) ==
  LET byWitness[i \in 0..Len(c.Witnesses)] ==
        IF i = 0 THEN s.byWitness
        ELSE AppendAt(byWitness[i - 1], c.Witnesses[i].WitnessID, c.ID)
  IN  [s EXCEPT !.byWitness = byWitness[Len(c.Witnesses)],
                !.byDomain  = IF c.Statement.Domain # <<>>
                              THEN AppendAt(@, c.Statement.Domain, c.ID) ELSE @,
                !.bySubject = IF c.Statement.Subject # <<>>
                              THEN AppendAt(@, c.Statement.Subject, c.ID) ELSE @]

\* IPFSStore.Put(ctx, c); uploaded tells whether the daemon took the upload
Put(s, c, uploaded) ==
  IF c = None THEN [s |-> s, claim |-> c, id |-> <<>>, err |-> "claim cannot be nil"]
  ELSE LET r  == ComputeCID(c[1])
           c1 == IF c[1].ID = <<>> THEN [r.claim EXCEPT !.ID = r.id] ELSE c[1]
       IN  IF ~uploaded
           THEN [s |-> s, claim |-> Some(c1), id |-> <<>>, err |-> "failed to add to IPFS"]
           ELSE [s |-> indexClaim([s EXCEPT !.index = MapPut(@, c1.ID, c1)], c1),
                 claim |-> Some(c1), id |-> c1.ID, err |-> "nil"]

\* IPFSStore.Get(ctx, cid); data is the content the daemon returns for cid,
\* None when it returns none
Get(s, cid, data) ==
  IF cid = <<>> THEN [s |-> s, claim |-> None, err |-> "CID cannot be empty"]
  ELSE IF cid \in DOMAIN s.index THEN [s |-> s, claim |-> Some(s.index[cid]), err |-> "nil"]
  ELSE IF data = None THEN [s |-> s, claim |-> None, err |-> "failed to fetch from IPFS"]
  ELSE LET c == [data[1] EXCEPT !.ID = cid]
       IN  [s |-> indexClaim([s EXCEPT !.index = MapPut(@, cid, c)], c),
            claim |-> Some(c), err |-> "nil"]

\* IPFSStore.List(ctx, filter); all is the order in which the range over
\* s.index yields its keys
List(s, filter, all) ==
  LET f == IF filter = None
           THEN [Domain |-> <<>>, WitnessID |-> <<>>, Subject |-> <<>>, Limit |-> 0, Offset |-> 0]
           ELSE filter[1]
      At(m, k) == IF k \in DOMAIN m THEN m[k] ELSE <<>>
      candidates == IF f.WitnessID # <<>> THEN At(s.byWitness, f.WitnessID)
                    ELSE IF f.Domain # <<>> THEN At(s.byDomain, f.Domain)
                    ELSE IF f.Subject # <<>> THEN At(s.bySubject, f.Subject)
                    ELSE all
      keep(cid) == /\ cid \in DOMAIN s.index
                   /\ f.Domain # <<>> => s.index[cid].Statement.Domain = f.Domain
                   /\ f.Subject # <<>> => s.index[cid].Statement.Subject = f.Subject
                   /\ f.WitnessID # <<>> =>
                        \E i \in 1..Len(s.index[cid].Witnesses) :
                          s.index[cid].Witnesses[i].WitnessID = f.WitnessID
      results == SelectSeq(candidates, keep)
      skipped == IF f.Offset > 0
                 THEN IF f.Offset >= Len(results) THEN <<>>
                      ELSE SubSeq(results, f.Offset + 1, Len(results))
                 ELSE results
  IN  IF f.Limit > 0 /\ f.Limit < Len(skipped) THEN SubSeq(skipped, 1, f.Limit) ELSE skipped

(***************************************************************************)
(* SpecStore: one caller on one store.                                     *)
(***************************************************************************)
\* the claims the caller builds: two in domain "d" with subjects "s" and
\* "t", and one with subject "s" and no domain
StoreClaims ==
  {NewClaim(Statement(i[1], <<112>>, <<111>>, i[2]), <<>>, <<116>>, [hi |-> 0, lo |-> 1]) :
     i \in {<<<<115>>, <<100>>>>, <<<<116>>, <<100>>>>, <<<<115>>, <<>>>>}}

\* the content the daemon holds, by the address it gave to it: the content
\* of a claim of subject "s" and domain "d" that has evidence, at an address
\* that is not the claim's identifier
Remote ==
  [a \in {<<81>> \o c.ID : c \in LifecycleClaims} |->
     CHOOSE c \in LifecycleClaims : <<81>> \o c.ID = a]

\* the filters asked for: none, the domain "d", the subject "s", the first
\* witness, domain and subject together, and the domain with a limit or an
\* offset of 1
Filters ==
  {None} \cup
  {Some([Domain |-> f[1], WitnessID |-> f[2], Subject |-> f[3], Limit |-> f[4], Offset |-> f[5]]) :
     f \in {<<<<100>>, <<>>, <<>>, 0, 0>>, <<<<>>, <<>>, <<115>>, 0, 0>>,
            <<<<>>, HexEncodeToString(KeyBytes(1)), <<>>, 0, 0>>,
            <<<<100>>, <<>>, <<115>>, 0, 0>>,
            <<<<100>>, <<>>, <<>>, 1, 0>>, <<<<100>>, <<>>, <<>>, 0, 1>>}}

\* the calls of Put and Get so far that added to the indexes
Indexed(s) ==
  Cardinality(UNION {{<<k, i>> : i \in 1..Len(s.bySubject[k])} : k \in DOMAIN s.bySubject})

InitStore ==
  /\ claim \in LifecycleClaims
  /\ last = Last("NewIPFSStore", "", None, None, None, <<>>, "nil")
  /\ st = NewIPFSStore
  /\ rs = Idle /\ heap = Idle /\ clock = 0 /\ held = Idle /\ procs = Idle

\* s.Put(ctx, c): c is nil, a claim just built, that claim with its ID
\* cleared, or a claim the caller got from an earlier Put or Get
PutCall ==
  \E c \in {None} \cup {Some(x) : x \in StoreClaims}
           \cup {Some([x EXCEPT !.ID = <<>>]) : x \in LifecycleClaims}
           \cup {Some(st.index[k]) : k \in DOMAIN st.index},
     uploaded \in BOOLEAN :
    LET r == Put(st, c, uploaded)
    IN  /\ Indexed(r.s) <= MaxEvents
        /\ st' = r.s
        /\ last' = Last("Put", "", None, r.claim, None, r.id, r.err)
        /\ UNCHANGED <<claim, rs, heap, clock, held, procs>>

\* s.Get(ctx, cid), for the empty cid, an identifier Put returned, and an
\* address of the daemon
GetCall ==
  \E cid \in {<<>>} \cup DOMAIN st.index \cup DOMAIN Remote \cup {c.ID : c \in StoreClaims} :
    LET r == Get(st, cid, IF cid \in DOMAIN Remote THEN Some(Remote[cid]) ELSE None)
    IN  /\ Indexed(r.s) <= MaxEvents
        /\ st' = r.s
        /\ last' = Last("Get", "", None, r.claim, None, cid, r.err)
        /\ UNCHANGED <<claim, rs, heap, clock, held, procs>>

\* s.List(ctx, filter)
ListCall ==
  \E filter \in Filters, all \in [1..Cardinality(DOMAIN st.index) -> DOMAIN st.index] :
    /\ \A i, j \in DOMAIN all : all[i] = all[j] => i = j
    /\ last' = Last("List", "", None, None, None,
                    [filter |-> filter, results |-> List(st, filter, all)], "nil")
    /\ UNCHANGED <<claim, rs, heap, clock, held, procs, st>>

\* the caller has the first witness attest to a claim it holds that went
\* through Put or Get: AddAttestation on the object index points to
CallerAttests ==
  \E cid \in DOMAIN st.index :
    LET c == st.index[cid]
        r == AddAttestation(c, Attest(GenerateWitness(KeyBytes(1)), Some(c), SigningTime).att)
    IN  /\ r.err = "nil"
        /\ Len(r.claim.Witnesses) <= MaxAtt
        /\ st' = [st EXCEPT !.index[cid] = r.claim]
        /\ last' = Last("AddAttestation", "", None, Some(r.claim), None, <<>>, r.err)
        /\ UNCHANGED <<claim, rs, heap, clock, held, procs>>

NextStore ==
  \/ PutCall
  \/ GetCall
  \/ ListCall
  \/ CallerAttests

SpecStore == InitStore /\ [][NextStore]_vars

(***************************************************************************)
(* SpecString: the records of an engine are summarised.  A witness id is   *)
(* any string: RecordAttestation creates a record for the id it is given.  *)
(***************************************************************************)
\* n >= 0 in decimal digits, as %d prints it
RECURSIVE Decimal(_)
Decimal(n) ==
  IF n < 10 THEN <<48 + n>> ELSE Append(Decimal(n \div 10), 48 + (n % 10))

\* x >= 0 as %.2f prints it: the nearest hundredth, a tie to the even one
TwoDecimals(x) ==
  LET twice == (200 * x[1]) \div x[2]
      exact == (200 * x[1]) % x[2] = 0
      down  == twice \div 2
      cents == IF twice % 2 = 0 THEN down
               ELSE IF exact /\ down % 2 = 0 THEN down
               ELSE down + 1
  IN  Decimal(cents \div 100) \o <<46, 48 + ((cents \div 10) % 10), 48 + (cents % 10)>>

\* ReputationRecord.String at clock reading t: rr.WitnessID[:16] panics
\* when the id has fewer than 16 bytes
String(rr, t) ==
  IF Len(rr.WitnessID) < 16
  THEN [str |-> <<>>, err |-> "panic: slice bounds out of range"]
  ELSE [str |-> <<87, 105, 116, 110, 101, 115, 115, 32>>
                \o SubSeq(rr.WitnessID, 1, 16) \o <<46, 46, 46>>
                \o <<58, 32, 115, 99, 111, 114, 101, 61>> \o TwoDecimals(Score(rr, t))
                \o <<32, 99, 108, 97, 105, 109, 115, 61>> \o Decimal(rr.TotalClaims)
                \o <<32, 97, 103, 114, 101, 101, 100, 61>> \o Decimal(rr.AgreedClaims)
                \o <<32, 100, 105, 115, 112, 117, 116, 101, 100, 61>>
                \o Decimal(rr.DisputedClaims),
        err |-> "nil"]

\* the ids the caller records under: a witness's hex id, its first 16 and
\* its first 15 characters, and the empty string
SummaryWitnesses ==
  LET id == HexEncodeToString(KeyBytes(1))
  IN  {id, SubSeq(id, 1, 16), SubSeq(id, 1, 15), <<>>}

\* rep, _ := store.GetRecord(w); rep.String()
StringCall ==
  \E w \in SummaryWitnesses :
    LET g == GetRecord(Mem(rs.records, heap), w, Caller)
        s == String(g.mem.heap[g.ptr[1]], clock)
    IN  /\ g.exists
        /\ last' = Last("String", "", None, None, None, [w |-> w, str |-> s.str], s.err)
        /\ UNCHANGED <<claim, rs, heap, clock, held, procs, st>>

NextString ==
  \/ RecordAttestationOn(SummaryWitnesses, ScoredDomain)
  \/ RecordAgreementOn(SummaryWitnesses, ScoredDomain)
  \/ RecordDisputeOn(SummaryWitnesses, ScoredDomain)
  \/ StringCall
  \/ Tick

SpecString == InitRep /\ [][NextString]_vars

(***************************************************************************)
(* SpecKept: the caller keeps the attestations it passes to AddAttestation *)
(* and goes on writing to them.  Signature is a []byte: an attestation     *)
(* holds the address of its bytes, heap holds the bytes.  held is the list *)
(* of the caller's attestation objects.                                    *)
(***************************************************************************)
\* the backing array of the n-th signature made
SigAddr(n) == [kind |-> "signature", of |-> n, d |-> <<>>]

\* the claim with the bytes of each entry's signature in place of their
\* address
Load(c, h) ==
  [c EXCEPT !.Witnesses =
     [i \in 1..Len(c.Witnesses) |-> [c.Witnesses[i] EXCEPT !.Signature = h[c.Witnesses[i].Signature]]]]

\* a VerifyAllAttestations that goes through the list from its end
VerifyAllAttestationsBackwards(c) ==
  LET loop[i \in 0..Len(c.Witnesses)] ==
        IF i = 0 THEN [index |-> -1, err |-> "nil"]
        ELSE LET e == VerifyAttestation(Some(c), Some(c.Witnesses[i]))
             IN  IF e # "nil" THEN [index |-> i - 1, err |-> e] ELSE loop[i - 1]
  IN  loop[Len(c.Witnesses)]

\* Claim.VerifyAllAttestations: the index (from 0) and the error of the
\* entry it fails on, -1 and "nil" when it succeeds
VerifyAllAttestations(c) ==
  LET loop[i \in 1..Len(c.Witnesses) + 1] ==
        IF i > Len(c.Witnesses) THEN [index |-> -1, err |-> "nil"]
        ELSE LET e == VerifyAttestation(Some(c), Some(c.Witnesses[i]))
             IN  IF e # "nil" THEN [index |-> i - 1, err |-> e] ELSE loop[i + 1]
  IN  loop[1]

\* the attestations the caller keeps: att1 and att2
KeptAttestations == 2

InitKept ==
  /\ claim \in LifecycleClaims
  /\ last = Last("NewClaim", "", None, None, None, <<>>, "nil")
  /\ heap = EmptyMap
  /\ held = <<>>
  /\ rs = Idle /\ clock = 0 /\ procs = Idle /\ st = Idle

\* att, _ := w.Attest(claim), for the witness of key k; the caller keeps att
AttestKept ==
  \E k \in Keys :
    LET r == Attest(GenerateWitness(k), Some(claim), SigningTime)
        a == SigAddr(Len(held) + 1)
    IN  /\ Len(held) < KeptAttestations
        /\ heap' = MapPut(heap, a, r.att[1].Signature)
        /\ held' = Append(held, [r.att[1] EXCEPT !.Signature = a])
        /\ last' = Last("Attest", "", None, None, None, <<>>, r.err)
        /\ UNCHANGED <<claim, rs, clock, procs, st>>

\* claim.AddAttestation(att) for an attestation the caller keeps: line 130
\* appends *att, a copy of the struct, whose Signature has the same address
AddKept ==
  \E n \in 1..Len(held) :
    LET c == Load(claim, heap)
        a == [held[n] EXCEPT !.Signature = heap[held[n].Signature]]
        r == AddAttestation(c, Some(a))
    IN  /\ claim' = IF r.claim = c THEN claim
                    ELSE [claim EXCEPT !.Witnesses = Append(@, held[n])]
        /\ last' = Last("AddAttestation", "", None, None, Some(a), n, r.err)
        /\ UNCHANGED <<rs, heap, clock, held, procs, st>>

\* the caller writes to an attestation it keeps: att.WitnessID and
\* att.Timestamp get other values (the id's upper-case spelling, the clock's
\* first reading), or att.Signature[0] ^= 0xFF
CallerWritesAttestation ==
  \E n \in 1..Len(held) :
    /\ \/ /\ held' = [held EXCEPT ![n].WitnessID = ToUpper(@),
                                  ![n].Timestamp = [hi |-> 0, lo |-> 1]]
          /\ held' # held
          /\ heap' = heap
       \/ /\ heap' = [heap EXCEPT ![held[n].Signature] = TamperSignature(@)]
          /\ held' = held
    /\ last' = Last("CallerWrites", "", None, None, None, n, "nil")
    /\ UNCHANGED <<claim, rs, clock, procs, st>>

\* claim.VerifyAllAttestations()
VerifyAllAttestationsCall ==
  LET r == VerifyAllAttestations(Load(claim, heap))
  IN  /\ last' = Last("VerifyAllAttestations", "", None, None, None, r.index, r.err)
      /\ UNCHANGED <<claim, rs, heap, clock, held, procs, st>>

NextKept ==
  \/ AttestKept
  \/ AddKept
  \/ CallerWritesAttestation
  \/ VerifyAllAttestationsCall

SpecKept == InitKept /\ [][NextKept]_vars

(***************************************************************************)
(* SpecRace: two goroutines call AddAttestation on one claim.  The code    *)
(* takes no lock, so a call is the steps of its reads and writes of        *)
(* c.Witnesses: the verification and the duplicate loop (reads), the read  *)
(* of the slice by append, and the assignment of append's result.          *)
(* procs.threads[p] is the call of goroutine p.                            *)
(***************************************************************************)
Adders == {<<1>>, <<2>>}

\* each goroutine has an attestation of the claim by one of the witnesses,
\* under the id's lower-case or upper-case spelling
InitRace ==
  /\ claim \in LifecycleClaims
  /\ last = Last("NewClaim", "", None, None, None, <<>>, "nil")
  /\ procs \in {[threads |-> t] :
                  t \in [Adders -> {[pc |-> "check", seen |-> <<>>, err |-> "nil",
                                     att |-> [WitnessID |-> id, Timestamp |-> SigningTime,
                                              Signature |-> Sign(PrivateKeyOf(HexDecodeString(id).bytes),
                                                                 c.ID)]] :
                                      id \in GoodIDs, c \in LifecycleClaims}]}
  /\ rs = Idle /\ heap = Idle /\ clock = 0 /\ held = Idle /\ st = Idle

\* lines 119-128: VerifyAttestation and the loop over c.Witnesses
CheckStep ==
  \E p \in Adders :
    LET t == procs.threads[p]
        r == AddAttestation(claim, Some(t.att))
    IN  /\ t.pc = "check"
        /\ procs' = [procs EXCEPT !.threads[p] =
                       IF r.err = "nil" THEN [t EXCEPT !.pc = "append"]
                       ELSE [t EXCEPT !.pc = "done", !.err = r.err]]
        /\ last' = Last("check", "", None, None, Some(t.att), p, r.err)
        /\ UNCHANGED <<claim, rs, heap, clock, held, st>>

\* line 130, append(c.Witnesses, *attestation): the read of c.Witnesses
LoadStep ==
  \E p \in Adders :
    /\ procs.threads[p].pc = "append"
    /\ procs' = [procs EXCEPT !.threads[p].pc = "assign",
                              !.threads[p].seen = claim.Witnesses]
    /\ last' = Last("load", "", None, None, None, p, "nil")
    /\ UNCHANGED <<claim, rs, heap, clock, held, st>>

\* line 130, c.Witnesses = ...: the slice read with the attestation after
\* it is assigned, and the call returns nil
AssignStep ==
  \E p \in Adders :
    LET t == procs.threads[p]
    IN  /\ t.pc = "assign"
        /\ claim' = [claim EXCEPT !.Witnesses = Append(t.seen, t.att)]
        /\ procs' = [procs EXCEPT !.threads[p].pc = "done"]
        /\ last' = Last("AddAttestation", "", None, None, Some(t.att), p, "nil")
        /\ UNCHANGED <<rs, heap, clock, held, st>>

NextRace ==
  \/ CheckStep
  \/ LoadStep
  \/ AssignStep

SpecRace == InitRace /\ [][NextRace]_vars

(***************************************************************************)
(* Properties of the attestation lifecycle (Spec).                         *)
(***************************************************************************)
WitnessIDs(c) == {c.Witnesses[i].WitnessID : i \in 1..Len(c.Witnesses)}

\* C1: after any sequence of add_attestation calls, successful or failing,
\* the claim's witnesses never hold two entries with the same witness_id.
NoDuplicateWitness ==
  \A i, j \in 1..Len(claim.Witnesses) :
    i # j => claim.Witnesses[i].WitnessID # claim.Witnesses[j].WitnessID

\* C1's case: a second attestation has been added to the claim
SecondWitnessAdded ==
  /\ last.op = "AddAttestation"
  /\ last.err = "nil"
  /\ Len(claim.Witnesses) = 2

\* the witness id of attestation a decodes to a key, and a's signature is
\* that key's signature of c's id
SignatureVerifies(c, a) ==
  LET d == HexDecodeString(a.WitnessID)
  IN  d.err = "nil" /\ Len(d.bytes) = PublicKeySize /\ Verify(d.bytes, c.ID, a.Signature)

KeyDecodes(a) ==
  LET d == HexDecodeString(a.WitnessID)
  IN  d.err = "nil" /\ Len(d.bytes) = PublicKeySize

\* C2: add_attestation verifies before it looks for a duplicate: an
\* attestation whose signature does not verify against this claim's id is
\* rejected as an invalid signature, never as a duplicate, also when its
\* witness_id is already among the claim's witnesses.
SignatureCheckedBeforeDuplicate ==
  (/\ last.op = "AddAttestation"
   /\ last.att # None
   /\ ~SignatureVerifies(claim, last.att[1]))
  => /\ last.err \notin {"nil", "witness already attested"}
     /\ KeyDecodes(last.att[1]) => last.err = "invalid signature"

\* C2's case: an attestation signed for another claim's id, by a witness id
\* that is already on the claim, was rejected for its signature
ForgedDuplicateRejectedForSignature ==
  /\ last.op = "AddAttestation"
  /\ last.err = "invalid signature"
  /\ last.att[1].Signature.msg = OtherClaim.ID
  /\ last.att[1].WitnessID \in WitnessIDs(claim)

\* C3: once an attestation with witness id W is on the claim, no later
\* add_attestation for W succeeds, and a validly signed one fails as a
\* duplicate; every failing add_attestation (duplicate, bad key, bad
\* signature, nil) leaves the witnesses list exactly as it was.
DuplicateRejectedListUnchanged ==
  [][last'.op = "AddAttestation" =>
       /\ last'.err # "nil" => claim'.Witnesses = claim.Witnesses
       /\ (last'.att # None /\ last'.att[1].WitnessID \in WitnessIDs(claim)) =>
            /\ last'.err # "nil"
            /\ SignatureVerifies(claim, last'.att[1]) => last'.err = "witness already attested"
            /\ claim' = claim]_vars

\* C3's case: a validly signed attestation of a witness already on the claim
\* was rejected as a duplicate
ValidDuplicateRejected ==
  /\ last.op = "AddAttestation"
  /\ last.err = "witness already attested"
  /\ SignatureVerifies(claim, last.att[1])
  /\ Len(claim.Witnesses) >= 1

\* C4: verify_id succeeds in every state a claim built by new_claim reaches
\* by successful add_attestation calls and metadata changes.
IdentityStable ==
  /\ VerifyCID(claim).err = "nil"
  /\ last.op = "VerifyCID" => last.err = "nil"

\* C4's case: VerifyCID was called on a claim with an attestation and metadata
VerifiedAfterAttestationAndMetadata ==
  /\ last.op = "VerifyCID"
  /\ last.err = "nil"
  /\ Len(claim.Witnesses) >= 1
  /\ claim.Metadata # {}

\* C21: the attestation list is append-only and keeps its order: the list
\* before every step is a prefix of the list after it, a successful
\* add_attestation adds exactly the given attestation at the end, a failing
\* one adds nothing, and no other operation changes the list.
AttestationsAppendOnly ==
  [][/\ Len(claim.Witnesses) <= Len(claim'.Witnesses)
     /\ SubSeq(claim'.Witnesses, 1, Len(claim.Witnesses)) = claim.Witnesses
     /\ IF last'.op = "AddAttestation" /\ last'.err = "nil"
        THEN claim'.Witnesses = Append(claim.Witnesses, last'.att[1])
        ELSE claim'.Witnesses = claim.Witnesses]_vars

\* C21's case: the second witness's attestation was added first and the
\* first witness's after it, and the list holds them in that order
AppendedInCallOrder ==
  /\ last.op = "AddAttestation"
  /\ last.err = "nil"
  /\ Len(claim.Witnesses) = 2
  /\ claim.Witnesses[1].WitnessID = HexEncodeToString(KeyBytes(2))
  /\ claim.Witnesses[2] = last.att[1]
  /\ claim.Witnesses[2].WitnessID = HexEncodeToString(KeyBytes(1))

\* C22: each witness contributes at most one attestation to a claim: no two
\* entries of the claim's witnesses decode to the same public key, whichever
\* of the witness_id strings that verify_attestation accepts for the key
\* they carry.
OneAttestationPerKey ==
  \A i, j \in 1..Len(claim.Witnesses) :
    i # j => HexDecodeString(claim.Witnesses[i].WitnessID).bytes
             # HexDecodeString(claim.Witnesses[j].WitnessID).bytes

(***************************************************************************)
(* Properties of claim identity (SpecId).                                  *)
(***************************************************************************)
\* every reordering of seq
Reorderings(seq) ==
  {[i \in 1..Len(seq) |-> seq[f[i]]] :
     f \in {g \in [1..Len(seq) -> 1..Len(seq)] : \A i, j \in 1..Len(seq) : g[i] = g[j] => i = j}}

\* the number of entries of seq equal to x
Occurrences(seq, x) == Cardinality({i \in 1..Len(seq) : seq[i] = x})

\* the same entries the same number of times
SameCollection(e1, e2) ==
  /\ Len(e1) = Len(e2)
  /\ \A i \in 1..Len(e1) : Occurrences(e1, e1[i]) = Occurrences(e2, e1[i])

\* the identity contents s and t agree in statement and time event, hold the
\* same evidence up to order, and the same 64-bit nanosecond timestamp
SameIdentity(s, t) ==
  /\ s.Statement = t.Statement
  /\ s.TimeEvent = t.TimeEvent
  /\ SameCollection(s.Evidence, t.Evidence)
  /\ s.Created.lo = t.Created.lo

\* C5: compute_id returns the same identifier for every permutation of the
\* evidence and every content of witnesses and metadata, and leaves the
\* claim's evidence in its original order.
ComputeCIDDeterministic ==
  last.op = "ComputeCID" =>
    /\ claim = last.clm[1]
    /\ \A p \in Reorderings(claim.Evidence), w \in WitnessesValues, m \in MetadataValues :
         ComputeCID([claim EXCEPT !.Evidence = p, !.Witnesses = w, !.Metadata = m]).id = last.out

\* C5's case: the id of a claim with unsorted evidence and an attestation
ComputedForUnsortedEvidence ==
  /\ last.op = "ComputeCID"
  /\ Len(claim.Evidence) = 2
  /\ StrLess(claim.Evidence[2], claim.Evidence[1])
  /\ claim.Witnesses # <<>>

\* C6, as claimed: two claims that differ in any of subject, predicate,
\* object, domain, evidence, time_event or created get different
\* identifiers.
IdDiffersWheneverAFieldDiffers ==
  last.op = "ComputeCID" =>
    \A e \in IdTable : e[1] # Identity(claim) => e[2] # last.out

\* C6, amended: two claims get different identifiers when they differ in
\* subject, predicate, object, domain or time_event, in their evidence as a
\* collection (other than by its order), or in the 64-bit nanosecond value of
\* created.
IdDiffersWhenIdentityDiffers ==
  last.op = "ComputeCID" =>
    \A e \in IdTable : e[2] = last.out => SameIdentity(e[1], Identity(claim))

\* C6's case: the id of a claim whose subject can be split differently
\* between subject and predicate
ComputedForSplittableSubject ==
  /\ last.op = "ComputeCID"
  /\ Len(claim.Statement.Subject) = 2
  /\ claim.Statement.Predicate = <<>>

\* C7, as claimed: verify_id succeeds on every claim new_claim returns, and
\* fails after any identity-bearing field was changed without recomputing
\* the id.
VerifyFailsAfterAnyChange ==
  /\ last.op = "NewClaim" => VerifyCID(claim).err = "nil"
  /\ last.op = "ChangeFieldAndVerify" => last.err = "CIDMismatch"

\* C7, amended: verify_id succeeds on every claim new_claim returns; after a
\* change of one identity-bearing field it fails, unless the change only
\* reorders the evidence or moves created by a multiple of 2^64 nanoseconds,
\* and then it succeeds.
VerifyFailsAfterIdentityChange ==
  /\ last.op = "NewClaim" => VerifyCID(claim).err = "nil"
  /\ last.op = "ChangeFieldAndVerify" =>
       (last.err = "CIDMismatch" <=> ~SameIdentity(Identity(claim), Identity(last.clm[1])))
  /\ last.op = "ChangeFieldAndVerify" => last.err \in {"CIDMismatch", "nil"}

\* C7's case: created was changed and VerifyCID reported the mismatch
CreatedChangedAndRejected ==
  /\ last.op = "ChangeFieldAndVerify"
  /\ last.ctor = "Created"
  /\ last.err = "CIDMismatch"

(***************************************************************************)
(* Properties of witnesses and signing (SpecWitness).                      *)
(***************************************************************************)
\* C8: the attestation a local witness makes for a claim verifies against
\* that claim; with its signature altered, or checked against a claim with a
\* different id, or with the id of a witness with another key in its
\* witness_id, it fails as an invalid signature.
SignatureIntegrity ==
  (last.op = "Attest" /\ last.err = "nil") =>
    LET a == last.att[1]
        c == last.clm
    IN  /\ VerifyAttestation(c, Some(a)) = "nil"
        /\ \A sig \in (Signatures(claim) \cup Signatures(OtherClaim)
                         \cup {TamperSignature(a.Signature)}) \ {a.Signature} :
             VerifyAttestation(c, Some([a EXCEPT !.Signature = sig])) = "invalid signature"
        /\ \A c2 \in {claim, OtherClaim} :
             c2.ID # c[1].ID => VerifyAttestation(Some(c2), Some(a)) = "invalid signature"
        /\ \A p \in WitnessPool :
             p.wit.PublicKey # last.wit[1].PublicKey =>
               VerifyAttestation(c, Some([a EXCEPT !.WitnessID = p.wit.ID])) = "invalid signature"

\* C8's case: a local witness has attested to the claim under test
LocalWitnessAttested ==
  /\ last.op = "Attest"
  /\ last.err = "nil"
  /\ last.clm = Some(claim)

\* C9: attest on a witness built by witness_from_id or witness_from_public_key
\* fails for want of a private key and gives no attestation; attest on a
\* local witness with an absent claim fails as invalid input.
RemoteWitnessCannotSign ==
  last.op = "Attest" =>
    /\ last.ctor \in {"WitnessFromID", "WitnessFromPublicKey"} =>
         last.err = "witness has no private key" /\ last.att = None
    /\ (last.ctor = "GenerateWitness" /\ last.clm = None) =>
         last.err = "claim cannot be nil" /\ last.att = None

\* C9's case: a witness rebuilt from its id was asked to attest to no claim
RemoteWitnessAskedToSign ==
  /\ last.op = "Attest"
  /\ last.ctor = "WitnessFromID"
  /\ last.clm = None
  /\ last.err = "witness has no private key"

\* C10: the id of every witness a constructor returns is the hex encoding
\* the encoder produces from the witness's public key.
WitnessIDIsCanonicalHex ==
  (last.op \in {"GenerateWitness", "WitnessFromPublicKey", "WitnessFromID"} /\ last.err = "nil")
    => last.wit[1].ID = HexEncodeToString(last.wit[1].PublicKey)

(***************************************************************************)
(* Properties of the scores (SpecScore).                                   *)
(***************************************************************************)
\* the records the engine holds
EngineRecords == {heap[rs.records[w]] : w \in DOMAIN rs.records}

\* x is a float64 of [0, 1]
InUnit(x) == FLe(FromInt(0), x) /\ FLe(x, FromInt(1))

\* C11: for every record the engine can hold after any sequence of
\* record_attestation, record_agreement and record_dispute calls, also with
\* more agreements or disputes than attestations, score and domain_score of
\* every domain lie in [0, 1]; with total_claims = 0 the score is exactly 0.5.
ScoreInUnitInterval ==
  \A rr \in EngineRecords :
    /\ InUnit(Score(rr, clock))
    /\ \A d \in DomainNames : InUnit(DomainScore(heap, rr, d, clock))
    /\ Score([rr EXCEPT !.TotalClaims = 0], clock) = Frac(1, 2)

\* C11's case: Score returned 1 for a witness with more agreements than
\* attestations, whose blend of accuracy and bonus lies above 1
ScoreClampedAtOne ==
  /\ last.op = "Score"
  /\ last.out.score = FromInt(1)
  /\ LET rr == heap[rs.records[last.out.w]]
     IN  /\ rr.AgreedClaims > rr.TotalClaims
         /\ ~FLe(BlendedScore(rr, clock), FromInt(1))

\* C12: for a record with total_claims > 0 scored at a fixed time, one more
\* agreed claim, the other counters as they are, never lowers the score, and
\* one more disputed claim never raises it.
ScoreMonotone ==
  \A rr \in EngineRecords :
    rr.TotalClaims > 0 =>
      /\ FLe(Score(rr, clock), Score([rr EXCEPT !.AgreedClaims = @ + 1], clock))
      /\ FLe(Score([rr EXCEPT !.DisputedClaims = @ + 1], clock), Score(rr, clock))

\* C12's case: RecordAgreement has just raised a witness's score, which one
\* more dispute would lower
AgreementRaisedScore ==
  /\ last.op = "RecordAgreement"
  /\ last.out[1] \in DOMAIN rs.records
  /\ LET rr == heap[rs.records[last.out[1]]]
     IN  /\ rr.TotalClaims > 0
         /\ ~FLe(Score(rr, clock), Score([rr EXCEPT !.AgreedClaims = @ - 1], clock))
         /\ ~FLe(Score(rr, clock), Score([rr EXCEPT !.DisputedClaims = @ + 1], clock))

\* C18: the witness-count bonus of claim_confidence grows with the number of
\* attesting witnesses and reaches its maximum of 0.2 at 5 witnesses, so a
\* claim with fewer than 5 witnesses gets a smaller bonus than one with 5.
BonusSmallerBelowFive ==
  (last.op = "ClaimConfidence" /\ Len(last.clm[1].Witnesses) \in 1..4) =>
    /\ ~WFLe(WitnessBonus(5), WitnessBonus(Len(last.clm[1].Witnesses)))
    /\ ~WFLe(WitnessBonus(Len(last.clm[1].Witnesses) + 1),
             WitnessBonus(Len(last.clm[1].Witnesses)))

\* clamp(sum(s * (0.5 + 0.5 s)) / sum(0.5 + 0.5 s) + min(n/5, 0.2), 0, 1) for
\* the sequence of the n >= 1 witnesses' values s, each in [0, 1] (the sum
\* is not below 0, so only the upper end of the clamp can act)
StatedConfidence(scores) ==
  IF scores = <<>> THEN WideFrac(Frac(0, 1)) ELSE
  LET n    == Len(scores)
      half == WideFrac(Frac(1, 2))
      one  == WideFrac(Frac(1, 1))
      weight(i) == WFAdd(half, WFMul(half, WideFrac(scores[i])))
      num[i \in 0..n] == IF i = 0 THEN WideFrac(Frac(0, 1))
                         ELSE WFAdd(num[i - 1], WFMul(WideFrac(scores[i]), weight(i)))
      den[i \in 0..n] == IF i = 0 THEN WideFrac(Frac(0, 1))
                         ELSE WFAdd(den[i - 1], weight(i))
      bonus == IF WFLe(WideFrac(Frac(n, 5)), WideFrac(Frac(1, 5)))
               THEN WideFrac(Frac(n, 5)) ELSE WideFrac(Frac(1, 5))
      total == WFAdd(WFDiv(num[n], den[n]), bonus)
  IN  IF WFLe(one, total) THEN one ELSE total

\* the values of the first n witnesses of claim c in the engine as it is:
\* 0.5 for a witness without a record, else the record's domain score for d
RECURSIVE WitnessValues(_, _, _)
WitnessValues(c, d, n) ==
  IF n = 0 THEN <<>>
  ELSE Append(WitnessValues(c, d, n - 1),
              IF c.Witnesses[n].WitnessID \in DOMAIN rs.records
              THEN DomainScore(heap, heap[rs.records[c.Witnesses[n].WitnessID]], d, clock)
              ELSE Frac(1, 2))

\* C19, as the code has it: claim_confidence of a claim with n >= 1
\* witnesses is the stated clamp of weighted average plus bonus, where the
\* value of a witness with a record is the record's domain_score for the
\* claim's domain (the global score when the record has no entry for that
\* domain, or an entry with no claims), and 0.5 for a witness without record.
ConfidenceOfDomainScores ==
  (last.op = "ClaimConfidence" /\ Len(last.clm[1].Witnesses) >= 1) =>
    WFEq(last.out, StatedConfidence(WitnessValues(last.clm[1], last.clm[1].Statement.Domain,
                                             Len(last.clm[1].Witnesses))))

\* C19 as stated: the value of a witness with a record is score(record), from
\* the witness's global counters.  No record has an entry for the empty
\* domain, so its domain score for it is that global score.
ConfidenceOfGlobalScores ==
  (last.op = "ClaimConfidence" /\ Len(last.clm[1].Witnesses) >= 1) =>
    WFEq(last.out, StatedConfidence(WitnessValues(last.clm[1], <<>>, Len(last.clm[1].Witnesses))))

\* C19's case: the confidence of a claim with two witnesses was computed,
\* one without a record and one whose record has claims in the claim's
\* domain, so that its domain score is not its global score
ConfidenceWithDomainEntry ==
  /\ last.op = "ClaimConfidence"
  /\ Len(last.clm[1].Witnesses) = 2
  /\ LET c == last.clm[1]
         v == WitnessValues(c, c.Statement.Domain, 2)
     IN  /\ \E i \in 1..2 : c.Witnesses[i].WitnessID \notin DOMAIN rs.records
         /\ v # WitnessValues(c, <<>>, 2)
         /\ v[1] # v[2]

\* clamp(x, 0, 1)
Clamp(x) == IF FLe(x, FromInt(0)) THEN FromInt(0) ELSE IF FLe(FromInt(1), x) THEN FromInt(1) ELSE x

\* C25: domain_score(record, d) is score(record) when d is absent from the
\* record's domains or its domain total_claims is 0; otherwise it is
\* clamp((domain accuracy - domain penalty) * w + score(record) * (1 - w), 0, 1)
\* with w = min(domain total_claims / 50, 1), so that with 50 or more claims
\* in the domain the global score has no influence.
DomainScoreAsStated ==
  \A rr \in EngineRecords, d \in DomainNames :
    LET s == DomainScore(heap, rr, d, clock)
        g == Score(rr, clock)
    IN  IF d \notin DOMAIN rr.Domains \/ heap[rr.Domains[d]].TotalClaims = 0 THEN s = g
        ELSE LET e   == heap[rr.Domains[d]]
                 own == FSub(Frac(e.AgreedClaims, e.TotalClaims),
                             FMul(Frac(e.DisputedClaims, e.TotalClaims), Frac(1, 2)))
                 w   == IF e.TotalClaims >= 50 THEN FromInt(1) ELSE Frac(e.TotalClaims, 50)
             IN  /\ s = Clamp(FAdd(FMul(own, w), FMul(g, FSub(FromInt(1), w))))
                 /\ e.TotalClaims >= 50 => s = Clamp(own)

\* C25's case: the scores of a witness with 50 or more claims in the domain
\* were asked for, and its domain score is not its global score
DomainScoreAtFullVolume ==
  /\ last.op = "Score"
  /\ last.out.score # last.out.domainScore
  /\ LET rr == heap[rs.records[last.out.w]]
     IN  /\ last.out.d \in DOMAIN rr.Domains
         /\ heap[rr.Domains[last.out.d]].TotalClaims >= 50

\* C26: the longevity bonus of score reaches its maximum of 0.1 only after
\* the witness has been known for one year: for a record whose first_seen
\* is less than 24*365 hours in the past, the bonus is below 0.1.
LongevityBonusBelowMaxWithinYear ==
  \A rr \in EngineRecords :
    clock - rr.FirstSeen < 24 * 365 =>
      /\ FLe(LongevityBonus(rr, clock), Frac(1, 10))
      /\ LongevityBonus(rr, clock) # Frac(1, 10)

(***************************************************************************)
(* Properties of the engine under concurrent calls (SpecConc).             *)
(***************************************************************************)
\* C13: claim_confidence of a claim with no witnesses is exactly 0, and for
\* every claim and every engine state it lies in [0, 1], also when recording
\* calls run between the reads of the computation.
ConfidenceInUnitInterval ==
  last.op = "ClaimConfidence" =>
    /\ WFLe(WideFrac(Frac(0, 1)), last.out)
    /\ WFLe(last.out, WideFrac(Frac(1, 1)))
    /\ Len(last.clm[1].Witnesses) = 0 => last.out = WideFrac(Frac(0, 1))

\* C13's case: ClaimConfidence returned 1 for a claim with two witnesses,
\* the quotient and the bonus together above 1, while a recording call is at
\* work on the engine
ConfidenceClampedBesideRecording ==
  /\ last.op = "ClaimConfidence"
  /\ Len(last.clm[1].Witnesses) = 2
  /\ WFEq(last.out, WideFrac(Frac(1, 1)))
  /\ \E p \in Recorders : procs.threads[p].pc = "store"

\* C17: under every interleaving of concurrent recording calls and
\* get_record calls no update is lost and no get_record sees a recording call
\* half applied.  When no recording call is under way the engine is what the
\* calls made so far give when run whole one after the other (after N
\* record_attestation calls for a witness its total_claims is N), and the
\* record a get_record returns is the record of that engine.
RecordingCallsAreAtomic ==
  /\ []((\A p \in Recorders : procs.threads[p].pc = "idle") =>
          Engine(rs.records, heap) = Engine(procs.atomic.records, procs.atomic.heap))
  /\ [][(procs.threads[Reader].pc = "domains" /\ procs'.threads[Reader].pc = "score") =>
          LET t == procs.threads[Reader]
          IN  Deref(heap', held'[1])
                = Engine(procs.atomic.records, procs.atomic.heap)[t.c.Witnesses[t.i].WitnessID]
       ]_vars

\* C17's case: GetRecord has returned a record with two attestations counted
\* globally and in the domain, and a recorder holds the lock for its next
\* call, which has created or found the record and not yet written to it
ReadBetweenRecordings ==
  /\ procs.threads[Reader].pc = "score"
  /\ held # None
  /\ Deref(heap, held[1]).TotalClaims = 2
  /\ \A d \in ScoredDomain : Deref(heap, held[1]).Domains[d].TotalClaims = 2
  /\ \E p \in Recorders :
       /\ procs.threads[p].pc = "store"
       /\ procs.threads[p].op = "RecordAttestation"
       /\ rs.mu.writer = Some(p)

(***************************************************************************)
(* Properties of the records handed out (SpecCopy).                        *)
(***************************************************************************)
\* C14: a record get_record returned, its domain map and every domain entry
\* included, is detached from the engine: a later recording call changes no
\* value of it, and a caller's write to it or to one of its domain entries
\* changes nothing of what the engine holds and returns later.
CopyIsDetached ==
  [][/\ (held # None /\ last'.op \in {"RecordAttestation", "RecordAgreement", "RecordDispute"})
          => Deref(heap', held[1]) = Deref(heap, held[1])
     /\ last'.op = "CallerWrites"
          => \A w \in DOMAIN rs.records :
               /\ Deref(heap', rs.records[w]) = Deref(heap, rs.records[w])
               /\ Deref(GetRecord(Mem(rs'.records, heap'), w, <<1>>).mem.heap, CopyAddr(<<1>>))
                    = Deref(GetRecord(Mem(rs.records, heap), w, <<1>>).mem.heap, CopyAddr(<<1>>))
    ]_vars

\* C14's case: the caller holds a record with an entry for the domain of the
\* RecordAttestation that came after, and the engine now counts more claims
\* in that domain than the record held
CopyOutlivedRecording ==
  /\ held # None
  /\ last.op = "RecordAttestation"
  /\ last.out[2] \in DOMAIN heap[held[1]].Domains
  /\ heap[held[1]].TotalClaims > 0
  /\ Deref(heap, rs.records[last.out[1]]).Domains[last.out[2]].TotalClaims
       > Deref(heap, held[1]).Domains[last.out[2]].TotalClaims
  /\ Deref(heap, held[1]).Domains[last.out[2]].TotalClaims > 0

(***************************************************************************)
(* Properties of the recording calls (SpecRep).                            *)
(***************************************************************************)
\* C15: record_agreement and record_dispute for a witness without a record
\* create no record and change no counter, so the witness is still absent;
\* for a known witness they add one to the global agreed or disputed counter,
\* and one to the domain's counter only when the domain is non-empty and the
\* record already has an entry for it; nothing else changes.
OutcomeOnlyForKnownWitness ==
  [][last'.op \in {"RecordAgreement", "RecordDispute"} =>
       LET w == last'.out[1]
           d == last'.out[2]
           field  == FieldOf(last'.op)
           before == Engine(rs.records, heap)
           after  == Engine(rs'.records, heap')
       IN  IF w \notin DOMAIN rs.records
           THEN /\ after = before
                /\ ~GetRecord(Mem(rs'.records, heap'), w, Caller).exists
           ELSE after =
                  [before EXCEPT
                     ![w] = [@ EXCEPT
                               ![field] = @ + 1,
                               !.Domains = [k \in DOMAIN @ |->
                                              IF k = d /\ d # <<>>
                                              THEN [@[k] EXCEPT ![field] = @ + 1]
                                              ELSE @[k]]]]
    ]_vars

\* C15's case: a dispute was recorded for a known witness in a domain its
\* record has no entry for, beside an entry for another domain, while the
\* other witness has no record
DisputeInUnseenDomain ==
  /\ last.op = "RecordDispute"
  /\ last.out[1] \in DOMAIN rs.records
  /\ last.out[2] # <<>>
  /\ last.out[2] \notin DOMAIN heap[rs.records[last.out[1]]].Domains
  /\ heap[rs.records[last.out[1]]].DisputedClaims = 1
  /\ heap[rs.records[last.out[1]]].Domains # EmptyMap
  /\ \E w \in RepWitnesses : w \notin DOMAIN rs.records

\* C16: every record_attestation call creates the witness's record if there
\* is none, setting first_seen then and never again, adds exactly one to the
\* witness's total_claims, adds exactly one to the named domain's
\* total_claims when the domain is non-empty, creating the entry if needed,
\* and changes no counter of another witness or another domain.
AttestationIsAdditive ==
  [][last'.op = "RecordAttestation" =>
       LET w == last'.out[1]
           d == last'.out[2]
           before == Engine(rs.records, heap)
           fresh  == [WitnessID |-> w, TotalClaims |-> 0, AgreedClaims |-> 0,
                      DisputedClaims |-> 0, Domains |-> EmptyMap,
                      FirstSeen |-> clock, LastSeen |-> None]
           found  == IF w \in DOMAIN before THEN before ELSE MapPut(before, w, fresh)
           entry  == IF d \in DOMAIN found[w].Domains THEN found[w].Domains[d]
                     ELSE [Domain |-> d, TotalClaims |-> 0, AgreedClaims |-> 0,
                           DisputedClaims |-> 0]
       IN  Engine(rs'.records, heap') =
             [found EXCEPT
                ![w] = [@ EXCEPT
                          !.TotalClaims = @ + 1,
                          !.LastSeen = Some(clock),
                          !.Domains = IF d = <<>> THEN @
                                      ELSE MapPut(@, d, [entry EXCEPT !.TotalClaims = @ + 1])]]
    ]_vars

\* C16's case: the same witness attested twice in the same domain, the
\* second time at a later clock reading, and another witness once
AttestedTwiceInOneDomain ==
  /\ last.op = "RecordAttestation"
  /\ last.out[2] # <<>>
  /\ LET rr == Deref(heap, rs.records[last.out[1]])
     IN  /\ rr.TotalClaims = 2
         /\ rr.Domains[last.out[2]].TotalClaims = 2
         /\ rr.FirstSeen = 0
         /\ rr.LastSeen = Some(876)
  /\ \E w \in DOMAIN rs.records : w # last.out[1] /\ heap[rs.records[w]].TotalClaims = 1

\* C28: in every engine state reachable by record_attestation,
\* record_agreement and record_dispute calls, every record has
\* agreed_claims + disputed_claims <= total_claims, so that accuracy and
\* dispute_ratio are each at most 1.
OutcomesWithinAttestations ==
  \A rr \in EngineRecords : rr.AgreedClaims + rr.DisputedClaims <= rr.TotalClaims

\* the sum of the domain entries' total_claims of record rr
DomainTotals(rr) ==
  LET sum[S \in SUBSET DOMAIN rr.Domains] ==
        IF S = {} THEN 0
        ELSE LET k == CHOOSE x \in S : TRUE
             IN  rr.Domains[k].TotalClaims + sum[S \ {k}]
  IN  sum[DOMAIN rr.Domains]

\* C29: in every reachable engine state, for every record: the domains'
\* total_claims sum to at most the record's total_claims; each domain's
\* agreed_claims and disputed_claims are at most the record's; every domain
\* entry has total_claims >= 1 and a non-empty name equal to its map key;
\* and every record has total_claims >= 1 and witness_id equal to its key.
DomainCountersWithinRecord ==
  LET engine == Engine(rs.records, heap)
  IN  \A w \in DOMAIN engine :
        /\ engine[w].WitnessID = w
        /\ engine[w].TotalClaims >= 1
        /\ DomainTotals(engine[w]) <= engine[w].TotalClaims
        /\ \A d \in DOMAIN engine[w].Domains :
             /\ d # <<>>
             /\ engine[w].Domains[d].Domain = d
             /\ engine[w].Domains[d].TotalClaims >= 1
             /\ engine[w].Domains[d].AgreedClaims <= engine[w].AgreedClaims
             /\ engine[w].Domains[d].DisputedClaims <= engine[w].DisputedClaims

\* C29's case: a record with a claim attested in a domain and one attested
\* without a domain, after an outcome reported for a domain the record has
\* no entry for
OutcomeForUnseenDomain ==
  /\ last.op \in {"RecordAgreement", "RecordDispute"}
  /\ \E w \in DOMAIN rs.records :
       LET rr == Engine(rs.records, heap)[w]
       IN  /\ DOMAIN rr.Domains # {}
           /\ DomainTotals(rr) < rr.TotalClaims
           /\ rr.AgreedClaims + rr.DisputedClaims = 1
           /\ last.out[1] = w
           /\ last.out[2] # <<>>
           /\ last.out[2] \notin DOMAIN rr.Domains

(***************************************************************************)
(* Properties of the store's listing (SpecStore).                          *)
(***************************************************************************)
\* the identifiers in the index whose claims match every set field of the
\* filter (no filter: all of them)
Matching(filter) ==
  {cid \in DOMAIN st.index :
     filter # None =>
       /\ filter[1].Domain # <<>> => st.index[cid].Statement.Domain = filter[1].Domain
       /\ filter[1].Subject # <<>> => st.index[cid].Statement.Subject = filter[1].Subject
       /\ filter[1].WitnessID # <<>> =>
            \E i \in 1..Len(st.index[cid].Witnesses) :
              st.index[cid].Witnesses[i].WitnessID = filter[1].WitnessID}

\* C20: after any sequence of successful Put and Get calls on one store,
\* List(filter) without limit and offset returns exactly the identifiers of
\* the claims that passed through those calls and match every set field of
\* the filter, each identifier once, and List(nil) returns every identifier
\* once; so the number of results for a domain is the number of distinct
\* stored claims of that domain, also after a claim was Put again or fetched
\* with Get and then Put.
ListReturnsEachMatchOnce ==
  (/\ last.op = "List"
   /\ last.out.filter # None =>
        last.out.filter[1].Limit = 0 /\ last.out.filter[1].Offset = 0)
  => /\ {last.out.results[i] : i \in 1..Len(last.out.results)} = Matching(last.out.filter)
     /\ Len(last.out.results) = Cardinality(Matching(last.out.filter))

(***************************************************************************)
(* Properties of the attestations the caller keeps (SpecKept).             *)
(***************************************************************************)
\* the entries of claim c, with their signatures' bytes, that do not verify
FailingEntries(c) ==
  {i \in 1..Len(c.Witnesses) : VerifyAttestation(Some(c), Some(c.Witnesses[i])) # "nil"}

\* C23: an attestation is immutable once appended: no change the caller
\* makes afterwards to the attestation object it passed in, to its
\* witness_id, its timestamp or the bytes of its signature, changes the
\* entry stored in the claim, so every entry of the claim still verifies.
StoredAttestationImmutable ==
  /\ [](FailingEntries(Load(claim, heap)) = {})
  /\ [][last'.op = "CallerWrites" => Load(claim', heap') = Load(claim, heap)]_vars

ConcurrentAddsKeepEveryEntry ==
  (\A p \in Adders : procs.threads[p].pc = "done") =>
    /\ \A i, j \in 1..Len(claim.Witnesses) :
         i # j => claim.Witnesses[i].WitnessID # claim.Witnesses[j].WitnessID
    /\ \A p \in Adders :
         procs.threads[p].err = "nil" =>
           \E i \in 1..Len(claim.Witnesses) : claim.Witnesses[i] = procs.threads[p].att

(***************************************************************************)
(* Properties of the record's summary (SpecString).                        *)
(***************************************************************************)
\* C30: String() returns normally, without a run-time failure, for every
\* record GetRecord can return, that is for every witness id
\* RecordAttestation accepts, ids shorter than 16 characters included.
StringReturnsNormally ==
  last.op = "String" => last.err = "nil" /\ last.out.str # <<>>

====
